---- MODULE Spec2Model ----
(***************************************************************************)
(* The concurrent import pipeline of pg-db: the entity store of            *)
(* database.go (DB.BookExists, DB.InsertBook), the import engine           *)
(* (Importer.Import, Importer.worker, Importer.insertBatch, ImportStats),  *)
(* the record extractor (ParseRDF and its helpers) and the document        *)
(* source (ExtractRDFFiles).                                               *)
(*                                                                         *)
(* Spec       the import engine: a producer, a pool of workers, the        *)
(*            buffered channel, the single store connection, the store.    *)
(* SpecStore  the store alone: any sequence of InsertBook calls, each      *)
(*            committing or failing at any statement.                      *)
(* SpecTx     the import engine with each InsertBook taken statement by    *)
(*            statement inside its transaction.                            *)
(* SpecStats  ImportStats under concurrent workers, each Record* call      *)
(*            taken as Lock, then the update and Unlock; the barrier.      *)
(* SpecErrors the error sample: any sequence of RecordFailure calls.       *)
(* SpecParse  the extractor alone: one call of ParseRDF, of                *)
(*            extractGutenbergID, of extractYear or of splitName on an     *)
(*            argument drawn from a bounded pool.                          *)
(* SpecExtract the document source alone: calls of ExtractRDFFiles on one  *)
(*            archive, each returning, failing or interrupted.             *)
(***************************************************************************)
EXTENDS Integers, Sequences, FiniteSets, TLC

\* ---------------------------------------------------------------- bounds
MaxDocs    == 3   \* documents in the list handed to Import
MaxWorkers == 2   \* -workers
MaxBatch   == 2   \* -batch-size
MaxOps     == 2   \* InsertBook calls in a behaviour of SpecStore
MaxTxDocs  == 2   \* documents in the list handed to Import in SpecTx
MaxFailures == 103  \* RecordFailure calls in a behaviour of SpecErrors
MaxNil     == 1   \* of these, the calls with a nil error

\* ------------------------------------------------------- optional values
\* A Go *int / *int64 that is nil, bound as SQL NULL.
NULL == <<>>

\* An SQL value that may be NULL is <<>> or <<v>>.
\* COALESCE(x, d) of SQLite.
Coalesce(x, d) == IF x = NULL THEN d ELSE x

\* NULLIF(s, '') of SQLite: NULL when s is the empty string.
NullIfEmpty(s) == IF s = "" THEN NULL ELSE <<s>>

\* ------------------------------------------------------------- the store
\* The schema created by initSchema, empty: one set of rows per table and
\* the AUTOINCREMENT counters of sqlite_sequence.
EmptyDB ==
  [ books            |-> {},
    authors          |-> {},
    book_authors     |-> {},
    subjects         |-> {},
    book_subjects    |-> {},
    bookshelves      |-> {},
    book_bookshelves |-> {},
    formats          |-> {},
    seq |-> [books |-> 0, authors |-> 0, subjects |-> 0,
             bookshelves |-> 0, formats |-> 0] ]

\* count > 1 in place of count > 0.
BookExistsOffByOne(db, gutenbergID) ==
  Cardinality({r \in db.books : r.gutenberg_id = gutenbergID}) > 1

\* SELECT COUNT(*) FROM books WHERE gutenberg_id = ? ... count > 0
BookExists(db, gutenbergID) ==
  Cardinality({r \in db.books : r.gutenberg_id = gutenbergID}) > 0

\* INSERT INTO books, no conflict clause, gutenberg_id not UNIQUE: every
\* import adds a row.
InsertBookRow(db, book, now) ==
  [db EXCEPT
     !.books = @ \cup
       {[ id |-> db.seq.books + 1,
          gutenberg_id |-> book.GutenbergID,
          title |-> book.Title,
          language |-> book.Language,
          download_count |-> book.DownloadCount,
          created_at |-> now ]},
     !.seq.books = @ + 1]

\* ON CONFLICT(gutenberg_id) DO UPDATE SET ..., created_at = excluded.created_at
UpsertBookRowStamped(db, book, now) ==
  IF \E r \in db.books : r.gutenberg_id = book.GutenbergID
  THEN [db EXCEPT !.books =
          { IF r.gutenberg_id = book.GutenbergID
            THEN [r EXCEPT !.title = book.Title,
                           !.language = book.Language,
                           !.download_count = book.DownloadCount,
                           !.created_at = now]
            ELSE r : r \in db.books }]
  ELSE [db EXCEPT
          !.books = @ \cup
            {[ id |-> db.seq.books + 1,
               gutenberg_id |-> book.GutenbergID,
               title |-> book.Title,
               language |-> book.Language,
               download_count |-> book.DownloadCount,
               created_at |-> now ]},
          !.seq.books = @ + 1]

\* INSERT OR REPLACE INTO books: on a conflict the old row is deleted and a
\* new row takes its place under a new id.
ReplaceBookRow(db, book, now) ==
  [db EXCEPT
     !.books = {r \in @ : r.gutenberg_id # book.GutenbergID} \cup
       {[ id |-> db.seq.books + 1,
          gutenberg_id |-> book.GutenbergID,
          title |-> book.Title,
          language |-> book.Language,
          download_count |-> book.DownloadCount,
          created_at |-> now ]},
     !.seq.books = @ + 1]

\* INSERT INTO books ... ON CONFLICT(gutenberg_id) DO UPDATE SET <scalars>:
\* the scalar columns are overwritten, id and created_at are kept.  Title,
\* Language and DownloadCount stand for the eleven scalar columns, which the
\* statement treats alike.
UpsertBookRow(db, book, now) ==
  IF \E r \in db.books : r.gutenberg_id = book.GutenbergID
  THEN [db EXCEPT !.books =
          { IF r.gutenberg_id = book.GutenbergID
            THEN [r EXCEPT !.title = book.Title,
                           !.language = book.Language,
                           !.download_count = book.DownloadCount]
            ELSE r : r \in db.books }]
  ELSE [db EXCEPT
          !.books = @ \cup
            {[ id |-> db.seq.books + 1,
               gutenberg_id |-> book.GutenbergID,
               title |-> book.Title,
               language |-> book.Language,
               download_count |-> book.DownloadCount,
               created_at |-> now ]},
          !.seq.books = @ + 1]

\* SELECT id FROM books WHERE gutenberg_id = ?
SelectBookID(db, gutenbergID) ==
  (CHOOSE r \in db.books : r.gutenberg_id = gutenbergID).id

\* WHERE name = ? AND birth_year = ? AND death_year = ?: without COALESCE
\* a NULL year equals nothing, itself included.
SameAuthorKeyPlain(row, author) ==
  /\ row.name = author.Name
  /\ row.birth_year # NULL /\ row.birth_year = author.BirthYear
  /\ row.death_year # NULL /\ row.death_year = author.DeathYear

\* WHERE name = ? AND COALESCE(birth_year,-1) = COALESCE(?,-1)
\*                AND COALESCE(death_year,-1) = COALESCE(?,-1)
SameAuthorKey(row, author) ==
  /\ row.name = author.Name
  /\ Coalesce(row.birth_year, <<-1>>) = Coalesce(author.BirthYear, <<-1>>)
  /\ Coalesce(row.death_year, <<-1>>) = Coalesce(author.DeathYear, <<-1>>)

\* SELECT id FROM authors WHERE ...: the ids found (QueryRow scans the first).
SelectAuthorIDs(db, author) ==
  {r.id : r \in {q \in db.authors : SameAuthorKey(q, author)}}

\* SET col = col: a stored value is never touched, empty or not.
BackfillKeepsStored(incoming, stored) == stored

\* SET col = ?: the incoming value always replaces the stored one.
BackfillOverwrites(incoming, stored) == incoming

\* SET col = COALESCE(NULLIF(?, ''), col)
BackfillValue(incoming, stored) ==
  Coalesce(NullIfEmpty(incoming), <<stored>>)[1]

\* INSERT OR REPLACE INTO authors: the row found is deleted and a new row,
\* under a new id, holds the backfilled columns.
ReplaceAuthor(db, authorID, author) ==
  [db EXCEPT
     !.authors =
       {r \in @ : r.id # authorID} \cup
       { [r EXCEPT
            !.id = db.seq.authors + 1,
            !.first_name = BackfillValue(author.FirstName, @),
            !.last_name  = BackfillValue(author.LastName, @),
            !.agent_id   = BackfillValue(author.AgentID, @),
            !.alias      = BackfillValue(author.Alias, @),
            !.webpage    = BackfillValue(author.Webpage, @)]
         : r \in {q \in db.authors : q.id = authorID} },
     !.seq.authors = @ + 1]

\* UPDATE authors SET first_name = ..., webpage = ... WHERE id = ?
UpdateAuthor(db, authorID, author) ==
  [db EXCEPT !.authors =
     { IF r.id = authorID
       THEN [r EXCEPT
               !.first_name = BackfillValue(author.FirstName, @),
               !.last_name  = BackfillValue(author.LastName, @),
               !.agent_id   = BackfillValue(author.AgentID, @),
               !.alias      = BackfillValue(author.Alias, @),
               !.webpage    = BackfillValue(author.Webpage, @)]
       ELSE r : r \in db.authors }]

\* INSERT INTO authors (name, first_name, ..., death_year, created_at)
InsertAuthor(db, author, now) ==
  [db EXCEPT
     !.authors = @ \cup
       {[ id |-> db.seq.authors + 1,
          name |-> author.Name,
          first_name |-> author.FirstName,
          last_name |-> author.LastName,
          agent_id |-> author.AgentID,
          alias |-> author.Alias,
          webpage |-> author.Webpage,
          birth_year |-> author.BirthYear,
          death_year |-> author.DeathYear,
          created_at |-> now ]},
     !.seq.authors = @ + 1]

\* The link written in place of the links the record had.
InsertLinkReplacing(db, table, bookID, entityID) ==
  [db EXCEPT ![table] = {l \in @ : l[1] # bookID} \cup {<<bookID, entityID>>}]

\* INSERT OR IGNORE INTO book_authors / book_subjects / book_bookshelves:
\* the primary key is the pair, so a second insert of a pair is ignored.
InsertOrIgnoreLink(db, table, bookID, entityID) ==
  [db EXCEPT ![table] = @ \cup {<<bookID, entityID>>}]

\* The lookup finding nothing: every subject or bookshelf is inserted anew
\* (the value column not UNIQUE).
SelectValueIDsNone(db, table, value) == {}

\* SELECT id FROM subjects WHERE subject = ?  (likewise bookshelves)
SelectValueIDs(db, table, value) ==
  {r.id : r \in {q \in db[table] : q.value = value}}

\* INSERT INTO subjects (subject, created_at)  (likewise bookshelves)
InsertValue(db, table, value, now) ==
  [db EXCEPT
     ![table] = @ \cup {[id |-> db.seq[table] + 1, value |-> value,
                         created_at |-> now]},
     !.seq[table] = @ + 1]

\* DELETE FROM formats, without the WHERE clause.
DeleteFormatsOfAll(db, bookID) == [db EXCEPT !.formats = {}]

\* No DELETE before the format inserts.
DeleteFormatsMissing(db, bookID) == db

\* DELETE FROM formats WHERE book_id = ?
DeleteFormats(db, bookID) ==
  [db EXCEPT !.formats = {f \in @ : f.book_id # bookID}]

\* INSERT INTO formats (book_id, format_type, file_url, file_size)
InsertFormat(db, bookID, format) ==
  [db EXCEPT
     !.formats = @ \cup
       {[ id |-> db.seq.formats + 1,
          book_id |-> bookID,
          format_type |-> format.Type,
          file_url |-> format.FileURL,
          file_size |-> format.FileSize ]},
     !.seq.formats = @ + 1]

\* ------------------------------------------------ DB.InsertBook, by statement
\* The statements InsertBook issues for a book, in program order.  Each is a
\* point where the call can fail and return.
StmtsPerEntity == <<"select", "write", "link">>

EntityStmts(kind, n) ==
  [k \in 1..(Len(StmtsPerEntity) * n) |->
     [op |-> kind,
      step |-> StmtsPerEntity[((k - 1) % Len(StmtsPerEntity)) + 1],
      i |-> ((k - 1) \div Len(StmtsPerEntity)) + 1]]

FormatStmts(n) == [k \in 1..n |-> [op |-> "format", step |-> "write", i |-> k]]

Stmt(op) == <<[op |-> op, step |-> "", i |-> 0]>>

Stmts(book) ==
  Stmt("begin") \o Stmt("upsert_book") \o Stmt("select_book_id")
    \o EntityStmts("author", Len(book.Authors))
    \o EntityStmts("subject", Len(book.Subjects))
    \o (IF Len(book.Formats) > 0 THEN Stmt("delete_formats") ELSE <<>>)
    \o EntityStmts("bookshelf", Len(book.Bookshelves))
    \o FormatStmts(Len(book.Formats))
    \o Stmt("commit")

MinOf(S) == CHOOSE x \in S : \A y \in S : x <= y

\* One author of the loop over book.Authors: the lookup, then the UPDATE of
\* the row found or the INSERT of a new one, then the link.
ExecAuthor(t, step, author, now) ==
  CASE step = "select" ->
         LET ids == SelectAuthorIDs(t.db, author)
         IN  [t EXCEPT !.found = (ids # {}),
                       !.id = IF ids # {} THEN MinOf(ids) ELSE 0]
    [] step = "write" ->
         IF t.found
         THEN [t EXCEPT !.db = UpdateAuthor(t.db, t.id, author)]
         ELSE [t EXCEPT !.db = InsertAuthor(t.db, author, now),
                        !.id = t.db.seq.authors + 1]
    [] step = "link" ->
         [t EXCEPT !.db = InsertOrIgnoreLink(t.db, "book_authors", t.bookID, t.id)]

\* One subject or bookshelf: the lookup, the INSERT when sql.ErrNoRows, the link.
ExecValue(t, step, table, linkTable, value, now) ==
  CASE step = "select" ->
         LET ids == SelectValueIDs(t.db, table, value)
         IN  [t EXCEPT !.found = (ids # {}),
                       !.id = IF ids # {} THEN MinOf(ids) ELSE 0]
    [] step = "write" ->
         IF t.found
         THEN t
         ELSE [t EXCEPT !.db = InsertValue(t.db, table, value, now),
                        !.id = t.db.seq[table] + 1]
    [] step = "link" ->
         [t EXCEPT !.db = InsertOrIgnoreLink(t.db, linkTable, t.bookID, t.id)]

ExecStmt(t, s, book, now) ==
  CASE s.op = "begin" -> t
    [] s.op = "upsert_book" ->
         [t EXCEPT !.db = UpsertBookRow(t.db, book, now)]
    [] s.op = "select_book_id" ->
         [t EXCEPT !.bookID = SelectBookID(t.db, book.GutenbergID)]
    [] s.op = "author" -> ExecAuthor(t, s.step, book.Authors[s.i], now)
    [] s.op = "subject" ->
         ExecValue(t, s.step, "subjects", "book_subjects", book.Subjects[s.i], now)
    [] s.op = "delete_formats" ->
         [t EXCEPT !.db = DeleteFormats(t.db, t.bookID)]
    [] s.op = "bookshelf" ->
         ExecValue(t, s.step, "bookshelves", "book_bookshelves",
                   book.Bookshelves[s.i], now)
    [] s.op = "format" ->
         [t EXCEPT !.db = InsertFormat(t.db, t.bookID, book.Formats[s.i])]
    [] s.op = "commit" -> t

\* The transaction after its first n statements.
RECURSIVE RunStmts(_, _, _, _, _)
RunStmts(db, stmts, n, book, now) ==
  IF n = 0
  THEN [db |-> db, bookID |-> 0, id |-> 0, found |-> FALSE]
  ELSE ExecStmt(RunStmts(db, stmts, n - 1, book, now), stmts[n], book, now)

\* tx.Commit(): the transaction's writes become the store.
Commit(db, txdb) == txdb

\* A failure path that returns without rolling back: the writes made before
\* the failing statement stay in the store.
RollbackMissing(db, txdb) == txdb

\* defer tx.Rollback(): the store is what it was at Begin.
Rollback(db, txdb) == db

\* The statement numbers at which a call for this book can fail.
FailPoints(book) == 1..Len(Stmts(book))

\* The transaction's own view of the database when the call ends: after
\* every statement (failAt = 0), or after those before the failing one.
TxWork(db, book, now, failAt) ==
  LET stmts == Stmts(book)
      ran   == IF failAt = 0 THEN Len(stmts) ELSE failAt - 1
  IN  RunStmts(db, stmts, ran, book, now).db

\* InsertBook(book) at clock reading now.  failAt = 0: every statement
\* succeeds and the transaction commits; failAt = k: statement k fails, the
\* deferred Rollback runs and the error is returned.
InsertBook(db, book, now, failAt) ==
  IF failAt = 0
  THEN [db |-> Commit(db, TxWork(db, book, now, failAt)), err |-> FALSE]
  ELSE [db |-> Rollback(db, TxWork(db, book, now, failAt)), err |-> TRUE]

\* ------------------------------------------------------- what a store holds
\* The rows of a store without the surrogate keys and timestamps: records by
\* identifier, contributors by their columns, links by (identifier, entity),
\* formats per record in insertion order.
AuthorCols(r) ==
  [name |-> r.name, first_name |-> r.first_name, last_name |-> r.last_name,
   agent_id |-> r.agent_id, alias |-> r.alias, webpage |-> r.webpage,
   birth_year |-> r.birth_year, death_year |-> r.death_year]

AuthorKey(r) == <<r.name, r.birth_year, r.death_year>>

FormatCols(f) ==
  [Type |-> f.format_type, FileURL |-> f.file_url, FileSize |-> f.file_size]

RECURSIVE RowsById(_)
RowsById(S) ==
  IF S = {} THEN <<>>
  ELSE LET m == CHOOSE r \in S : \A q \in S : r.id <= q.id
       IN  <<FormatCols(m)>> \o RowsById(S \ {m})

\* SELECT format_type, file_url, file_size FROM formats JOIN books ...
\* WHERE gutenberg_id = ? ORDER BY formats.id
FormatsOf(db, gutenbergID) ==
  RowsById({f \in db.formats :
              \E r \in db.books :
                 r.id = f.book_id /\ r.gutenberg_id = gutenbergID})

BookCols(r) ==
  [gutenberg_id |-> r.gutenberg_id, title |-> r.title,
   language |-> r.language, download_count |-> r.download_count]

LinkedAuthors(db, gutenbergID) ==
  {AuthorKey(a) : a \in {q \in db.authors :
     \E r \in db.books : r.gutenberg_id = gutenbergID
                           /\ <<r.id, q.id>> \in db.book_authors}}

LinkedValues(db, table, linkTable, gutenbergID) ==
  {v.value : v \in {q \in db[table] :
     \E r \in db.books : r.gutenberg_id = gutenbergID
                           /\ <<r.id, q.id>> \in db[linkTable]}}

\* One record as a reader of the store sees it.
RecordView(db, gutenbergID) ==
  [ row         |-> {BookCols(r) : r \in {q \in db.books :
                                            q.gutenberg_id = gutenbergID}},
    authors     |-> LinkedAuthors(db, gutenbergID),
    subjects    |-> LinkedValues(db, "subjects", "book_subjects", gutenbergID),
    bookshelves |-> LinkedValues(db, "bookshelves", "book_bookshelves",
                                 gutenbergID),
    formats     |-> FormatsOf(db, gutenbergID) ]

Gids(db) == {r.gutenberg_id : r \in db.books}

Contents(db) ==
  [ records      |-> [g \in Gids(db) |-> RecordView(db, g)],
    rowCounts    |-> [books |-> Cardinality(db.books),
                      authors |-> Cardinality(db.authors),
                      subjects |-> Cardinality(db.subjects),
                      bookshelves |-> Cardinality(db.bookshelves),
                      book_authors |-> Cardinality(db.book_authors),
                      book_subjects |-> Cardinality(db.book_subjects),
                      book_bookshelves |-> Cardinality(db.book_bookshelves),
                      formats |-> Cardinality(db.formats)],
    contributors |-> {AuthorCols(a) : a \in db.authors},
    subjects     |-> {v.value : v \in db.subjects},
    bookshelves  |-> {v.value : v \in db.bookshelves} ]

\* ------------------------------------------------------------------ inputs
Author(first, last, agent, alias, webpage, birth) ==
  [Name |-> "Twain, Mark", FirstName |-> first, LastName |-> last,
   AgentID |-> agent, Alias |-> alias, Webpage |-> webpage,
   BirthYear |-> birth, DeathYear |-> NULL]

Book(id, title, authors, subjects, bookshelves, formats) ==
  [GutenbergID |-> id, Title |-> title, Language |-> "en",
   DownloadCount |-> IF title = "t1" THEN 10 ELSE 20,
   Authors |-> authors, Subjects |-> subjects, Bookshelves |-> bookshelves,
   Formats |-> formats]

Format(type, url, size) == [Type |-> type, FileURL |-> url, FileSize |-> size]

\* The five backfilled columns of one contributor, as sent by a document.
SubFieldPatterns ==
  { <<"", "", "", "", "">>, <<"x", "x", "x", "x", "x">>,
    <<"y", "y", "y", "y", "y">>, <<"x", "", "y", "", "x">>,
    <<"", "y", "", "x", "">> }

\* One name without years under every pattern, and with a birth year.
AuthorPool ==
  {Author(p[1], p[2], p[3], p[4], p[5], NULL) : p \in SubFieldPatterns}
    \cup {Author("", "", "", "", "", <<1835>>),
          Author("x", "x", "x", "x", "x", <<1835>>)}

F1 == Format("application/epub+zip", "u1.epub", <<100>>)
F2 == Format("", "u2", NULL)

AuthorLists ==
  {<<a>> : a \in AuthorPool}
    \cup {<<Author("", "", "", "", "", NULL),
            Author("x", "x", "x", "x", "x", NULL)>>}

BookIds == {"1", "2"}

\* The records handed to InsertBook in SpecStore: every contributor list on
\* one axis, the subjects, bookshelves and formats on the other.
BookPool ==
  {Book(g, "t1", al, <<>>, <<>>, <<>>) : g \in BookIds, al \in AuthorLists}
    \cup {Book(g, "t2", <<>>, x[1], x[2], x[3]) :
            g \in BookIds,
            x \in { <<<<"s">>, <<"b">>, <<F1, F2>>>>,
                    <<<<"s", "s">>, <<>>, <<F2>>>>,
                    <<<<>>, <<"b", "c">>, <<>>>> }}

\* A document on disk: content that does not decode, content without an
\* ebook element, or an ebook element and the Book ParseRDF builds from it.
Undecodable == [kind |-> "undecodable", book |-> <<>>]
NoEbook     == [kind |-> "noebook", book |-> <<>>]
Ebook(book) == [kind |-> "ebook", book |-> <<book>>]

Ay == Author("y", "", "y", "", "y", NULL)

\* The engine treats both unparsable kinds alike; the pool holds one of them.
DocPool ==
  LET A0 == Author("", "", "", "", "", NULL)
      Ax == Author("x", "x", "x", "x", "x", NULL)
  IN  { Undecodable,
        Ebook(Book("", "t1", <<>>, <<>>, <<>>, <<>>)),
        Ebook(Book("1", "t1", <<A0>>, <<"s">>, <<>>, <<F1>>)),
        Ebook(Book("1", "t2", <<Ax>>, <<>>, <<"b">>, <<>>)),
        Ebook(Book("2", "t1", <<Ay>>, <<"s">>, <<>>, <<F2>>)) }

\* The store a run starts from: fresh, or left by an earlier run.
OldBook == Book("1", "t0", <<Ay>>, <<>>, <<"b">>, <<F2>>)

InitialStores == {EmptyDB, InsertBook(EmptyDB, OldBook, 0, 0).db}

\* ParseRDFFile: (nil, err) when the content does not decode or has no ebook
\* element, (book, nil) otherwise.  A *Book is <<>> (nil) or <<book>>.
ParseRDFFile(doc) ==
  IF doc.kind = "undecodable" THEN [book |-> <<>>, err |-> "decode"]
  ELSE IF doc.kind = "noebook" THEN [book |-> <<>>, err |-> "noebook"]
  ELSE [book |-> doc.book, err |-> ""]

\* ----------------------------------------------------- strings (parser.go)
\* A string of the parser is the sequence of its characters; "" is <<>>.
DigitChars == <<"0", "1", "2", "3", "4", "5", "6", "7", "8", "9">>

\* \d of the regular expressions.
IsDigit(c) == \E d \in DOMAIN DigitChars : DigitChars[d] = c

DigitValue(c) == (CHOOSE d \in DOMAIN DigitChars : DigitChars[d] = c) - 1

\* unicode.IsSpace on the characters the documents use.
IsSpace(c) == c \in {" ", "\t", "\n", "\r"}

MaxOf(S) == CHOOSE x \in S : \A y \in S : x >= y

\* strings.TrimSpace
TrimSpace(s) ==
  LET keep == {i \in 1..Len(s) : ~IsSpace(s[i])}
  IN  IF keep = {} THEN <<>> ELSE SubSeq(s, MinOf(keep), MaxOf(keep))

\* strings.ToLower
ToLower(s) ==
  LET upper == <<"A", "B", "C", "D", "E", "F", "G", "H", "I", "J", "K", "L",
                 "M", "N", "O", "P", "Q", "R", "S", "T", "U", "V", "W", "X",
                 "Y", "Z">>
      lower == <<"a", "b", "c", "d", "e", "f", "g", "h", "i", "j", "k", "l",
                 "m", "n", "o", "p", "q", "r", "s", "t", "u", "v", "w", "x",
                 "y", "z">>
  IN  [i \in 1..Len(s) |->
         IF \E k \in DOMAIN upper : upper[k] = s[i]
         THEN lower[CHOOSE k \in DOMAIN upper : upper[k] = s[i]]
         ELSE s[i]]

\* strings.Contains
Contains(s, sub) ==
  \E i \in 0..(Len(s) - Len(sub)) : SubSeq(s, i + 1, i + Len(sub)) = sub

\* strings.Fields: the maximal runs of characters that are not spaces.
RECURSIVE Fields(_)
Fields(s) ==
  LET word == {i \in 1..Len(s) : ~IsSpace(s[i])}
  IN  IF word = {} THEN <<>>
      ELSE LET a == MinOf(word)
               gaps == {i \in a..Len(s) : IsSpace(s[i])}
               b == IF gaps = {} THEN Len(s) + 1 ELSE MinOf(gaps)
           IN  <<SubSeq(s, a, b - 1)>> \o Fields(SubSeq(s, b, Len(s)))

\* strings.SplitN(s, sep, 2) for a separator of one character.
SplitN2(s, sep) ==
  LET at == {i \in 1..Len(s) : s[i] = sep}
  IN  IF at = {} THEN <<s>>
      ELSE <<SubSeq(s, 1, MinOf(at) - 1), SubSeq(s, MinOf(at) + 1, Len(s))>>

\* strings.Join
RECURSIVE Join(_, _)
Join(elems, sep) ==
  IF elems = <<>> THEN <<>>
  ELSE IF Len(elems) = 1 THEN elems[1]
  ELSE elems[1] \o sep \o Join(Tail(elems), sep)

\* strconv.Atoi on a string of digits.
RECURSIVE Atoi(_)
Atoi(s) ==
  IF s = <<>> THEN 0
  ELSE 10 * Atoi(SubSeq(s, 1, Len(s) - 1)) + DigitValue(s[Len(s)])

\* strconv.ParseInt(s, 10, 64): an optional sign and at least one digit,
\* nothing else; NULL stands for the error.
ParseInt(s) ==
  LET signed == s # <<>> /\ s[1] \in {"+", "-"}
      digits == IF signed THEN Tail(s) ELSE s
  IN  IF digits # <<>> /\ \A i \in 1..Len(digits) : IsDigit(digits[i])
      THEN <<IF signed /\ s[1] = "-" THEN 0 - Atoi(digits) ELSE Atoi(digits)>>
      ELSE NULL

\* ------------------------------------------------ the extractor (parser.go)
\* The end of the longest run of digits of s that starts at i; i - 1 if s
\* has no digit at i.
DigitsEnd(s, i) ==
  LET stops == {j \in i..Len(s) : ~IsDigit(s[j])}
  IN  IF stops = {} THEN Len(s) ELSE MinOf(stops) - 1

\* /(\d+)(?:/|$) matches in uri where a slash is followed by one or more
\* digits and then by a slash or the end of the text.  FindStringSubmatch
\* returns the leftmost match; matches[1] is its digits.
extractGutenbergID(uri) ==
  LET matches == {i \in 1..Len(uri) :
                    /\ uri[i] = "/"
                    /\ DigitsEnd(uri, i + 1) > i
                    /\ \/ DigitsEnd(uri, i + 1) = Len(uri)
                       \/ uri[DigitsEnd(uri, i + 1) + 1] = "/"}
  IN  IF matches = {} THEN <<>>
      ELSE SubSeq(uri, MinOf(matches) + 1, DigitsEnd(uri, MinOf(matches) + 1))

\* (\d{4}) matches in dateStr wherever four digits stand in a row; the
\* leftmost match is taken.  A *int is NULL or <<year>>.
extractYear(dateStr) ==
  LET matches == {i \in 1..(Len(dateStr) - 3) :
                    \A k \in 0..3 : IsDigit(dateStr[i + k])}
  IN  IF matches = {} THEN NULL
      ELSE <<Atoi(SubSeq(dateStr, MinOf(matches), MinOf(matches) + 3))>>

\* The media types extractFormatFromURL returns, by hint.
MediaType(hint) ==
  CASE hint = "epub" -> <<"a", "p", "p", "l", "i", "c", "a", "t", "i", "o", "n", "/", 
         "e", "p", "u", "b", "+", "z", "i", "p">>
    [] hint = "kindle" ->
         <<"a", "p", "p", "l", "i", "c", "a", "t", "i", "o", "n", "/", "x", "-", 
         "m", "o", "b", "i", "p", "o", "c", "k", "e", "t", 
         "-", "e", "b", "o", "o", "k">>
    [] hint = "html" -> <<"t", "e", "x", "t", "/", "h", "t", "m", "l">>
    [] hint = "plain" -> <<"t", "e", "x", "t", "/", "p", "l", "a", "i", "n">>

\* extractFormatFromURL testing "html" before "epub".
extractFormatFromURLHtmlFirst(url) ==
  LET u == ToLower(url)
  IN  IF Contains(u, <<"h", "t", "m", "l">>) THEN MediaType("html")
      ELSE IF Contains(u, <<"e", "p", "u", "b">>) THEN MediaType("epub")
      ELSE IF Contains(u, <<"k", "i", "n", "d", "l", "e">>) THEN MediaType("kindle")
      ELSE IF \/ Contains(u, <<"t", "x", "t">>)
              \/ Contains(u, <<"p", "l", "a", "i", "n">>) THEN MediaType("plain")
      ELSE <<>>

extractFormatFromURL(url) ==
  LET u == ToLower(url)
  IN  IF Contains(u, <<"e", "p", "u", "b">>) THEN MediaType("epub")
      ELSE IF Contains(u, <<"k", "i", "n", "d", "l", "e">>) THEN MediaType("kindle")
      ELSE IF Contains(u, <<"h", "t", "m", "l">>) THEN MediaType("html")
      ELSE IF \/ Contains(u, <<"t", "x", "t">>)
              \/ Contains(u, <<"p", "l", "a", "i", "n">>) THEN MediaType("plain")
      ELSE <<>>

\* splitName keeping the word after the first as the last name.
splitNameSecondWord(fullName) ==
  LET name == TrimSpace(fullName)
      parts == SplitN2(name, ",")
      words == Fields(name)
  IN  IF name = <<>> THEN [firstName |-> <<>>, lastName |-> <<>>]
      ELSE IF Contains(name, <<",">>) /\ Len(parts) = 2
      THEN [firstName |-> TrimSpace(parts[2]),
            lastName |-> TrimSpace(parts[1])]
      ELSE IF Len(words) = 0 THEN [firstName |-> <<>>, lastName |-> <<>>]
      ELSE IF Len(words) = 1 THEN [firstName |-> <<>>, lastName |-> words[1]]
      ELSE [firstName |-> words[1], lastName |-> words[2]]

splitName(fullName) ==
  LET name == TrimSpace(fullName)
      parts == SplitN2(name, ",")
      words == Fields(name)
  IN  IF name = <<>> THEN [firstName |-> <<>>, lastName |-> <<>>]
      ELSE IF Contains(name, <<",">>) /\ Len(parts) = 2
      THEN [firstName |-> TrimSpace(parts[2]),
            lastName |-> TrimSpace(parts[1])]
      ELSE IF Len(words) = 0 THEN [firstName |-> <<>>, lastName |-> <<>>]
      ELSE IF Len(words) = 1 THEN [firstName |-> <<>>, lastName |-> words[1]]
      ELSE [firstName |-> words[1], lastName |-> words[Len(words)]]

\* The trimmed entries of a repeated element that are not empty.
RECURSIVE TrimmedNonEmpty(_)
TrimmedNonEmpty(values) ==
  IF values = <<>> THEN <<>>
  ELSE LET trimmed == TrimSpace(Head(values))
       IN  (IF trimmed # <<>> THEN <<trimmed>> ELSE <<>>)
             \o TrimmedNonEmpty(Tail(values))

\* One pass of the language loop: what the element sets book.Language to,
\* <<>> when none of its three branches is taken.  A pointer is <<>> (nil)
\* or <<value>>.
LanguageOf(lang) ==
  IF lang.Description # <<>> /\ lang.Description[1].Value # <<>>
  THEN TrimSpace(lang.Description[1].Value)
  ELSE IF lang.Resource # <<>> THEN lang.Resource
  ELSE IF lang.Value # <<>> THEN TrimSpace(lang.Value)
  ELSE <<>>

\* for _, lang := range ebook.Language { if book.Language == "" { ... } }
RECURSIVE ExtractLanguage(_, _)
ExtractLanguage(langs, language) ==
  IF langs = <<>> THEN language
  ELSE ExtractLanguage(Tail(langs),
                       IF language = <<>> THEN LanguageOf(Head(langs))
                                          ELSE language)

\* The Author built from a creator's agent.
AuthorOf(agent) ==
  LET fullName == TrimSpace(agent.Name)
      split == splitName(fullName)
  IN  [Name |-> fullName,
       FirstName |-> split.firstName,
       LastName |-> split.lastName,
       AgentID |-> TrimSpace(agent.About),
       Alias |-> Join(TrimmedNonEmpty(agent.Alias), <<";", " ">>),
       Webpage |-> Join(TrimmedNonEmpty(agent.Webpage), <<";", " ">>),
       BirthYear |-> IF agent.BirthDate # <<>>
                     THEN extractYear(agent.BirthDate) ELSE NULL,
       DeathYear |-> IF agent.DeathDate # <<>>
                     THEN extractYear(agent.DeathDate) ELSE NULL]

\* The creators with an agent whose trimmed name is not empty, in order.
RECURSIVE ExtractAuthors(_)
ExtractAuthors(creators) ==
  IF creators = <<>> THEN <<>>
  ELSE LET creator == Head(creators)
       IN  (IF creator.Agent # <<>> /\ AuthorOf(creator.Agent[1]).Name # <<>>
            THEN <<AuthorOf(creator.Agent[1])>> ELSE <<>>)
             \o ExtractAuthors(Tail(creators))

\* The subjects, or bookshelves, with a Description whose trimmed value is
\* not empty, in order.
RECURSIVE ExtractValues(_)
ExtractValues(elems) ==
  IF elems = <<>> THEN <<>>
  ELSE LET elem == Head(elems)
       IN  (IF elem.Description # <<>>
               /\ TrimSpace(elem.Description[1].Value) # <<>>
            THEN <<TrimSpace(elem.Description[1].Value)>> ELSE <<>>)
             \o ExtractValues(Tail(elems))

\* The Format built from a hasFormat's file.
FormatOf(file) ==
  LET declared == IF file.Format # <<>> THEN TrimSpace(file.Format[1].Value)
                                        ELSE <<>>
  IN  [FileURL |-> file.About,
       FileSize |-> IF file.Extent # <<>>
                    THEN ParseInt(TrimSpace(file.Extent)) ELSE NULL,
       Type |-> IF declared = <<>> THEN extractFormatFromURL(file.About)
                                   ELSE declared]

\* The formats with a file whose URL is not empty, in order.
RECURSIVE ExtractFormats(_)
ExtractFormats(formats) ==
  IF formats = <<>> THEN <<>>
  ELSE LET format == Head(formats)
       IN  (IF format.File # <<>> /\ format.File[1].About # <<>>
            THEN <<FormatOf(format.File[1])>> ELSE <<>>)
             \o ExtractFormats(Tail(formats))

\* decoder.Decode(&doc): the content has a root element named RDF.  root
\* is the name of the root element read, "" when the content has none.
Decodes(doc) == doc.root = "RDF"

\* The Book ParseRDF fills from the ebook element.  The scalar fields not
\* shown are TrimSpace of their element, like Title.
BookOfEbook(ebook) ==
  [GutenbergID |-> IF ebook.About # <<>> THEN extractGutenbergID(ebook.About)
                                         ELSE <<>>,
   Title |-> TrimSpace(ebook.Title),
   Language |-> ExtractLanguage(ebook.Language, <<>>),
   Authors |-> ExtractAuthors(ebook.Creator),
   Subjects |-> ExtractValues(ebook.Subject),
   Bookshelves |-> ExtractValues(ebook.Bookshelf),
   Formats |-> ExtractFormats(ebook.Format)]

\* ParseRDF returning an empty Book for a document without ebook element.
ParseRDFWithoutEbook(doc) ==
  IF ~Decodes(doc) THEN [book |-> <<>>, err |-> "failed to decode XML"]
  ELSE IF doc.Ebook = <<>>
  THEN [book |-> <<[GutenbergID |-> <<>>, Title |-> <<>>, Language |-> <<>>,
                    Authors |-> <<>>, Subjects |-> <<>>, Bookshelves |-> <<>>,
                    Formats |-> <<>>]>>,
        err |-> ""]
  ELSE [book |-> <<BookOfEbook(doc.Ebook[1])>>, err |-> ""]

\* ParseRDF: (nil, err) or (book, nil); err is "" for nil.
ParseRDF(doc) ==
  IF ~Decodes(doc) THEN [book |-> <<>>, err |-> "failed to decode XML"]
  ELSE IF doc.Ebook = <<>>
  THEN [book |-> <<>>, err |-> "no ebook element found"]
  ELSE [book |-> <<BookOfEbook(doc.Ebook[1])>>, err |-> ""]

\* ----------------------------------------------- the archive (extract.go)
\* A file name is the sequence of its parts: directory names, separators,
\* the stem and the extension.
HasSuffix(name, ext) == name # <<>> /\ name[Len(name)] = ext

\* strings.ReplaceAll(name, "/", "_") and then of "\\".
Sanitize(name) ==
  [i \in 1..Len(name) |-> IF name[i] \in {"/", "\\"} THEN "_" ELSE name[i]]

\* os.Create and io.Copy of one file: the directory afterwards.  A file is
\* whole when io.Copy wrote all of it.
WriteFile(dir, path, whole) ==
  {f \in dir : f.path # path} \cup {[path |-> path, whole |-> whole]}

\* extractTar from entry k on; fail is <<>> or the entry and the call that
\* fails, <<[at, how]>>.  dir is the set of files of destDir.
RECURSIVE extractTar(_, _, _, _, _)
extractTar(entries, k, dir, rdfFiles, fail) ==
  IF k > Len(entries) THEN [dir |-> dir, rdfFiles |-> rdfFiles, err |-> ""]
  ELSE LET failing == fail # <<>> /\ fail[1].at = k
           path == Sanitize(entries[k])
       IN  IF failing /\ fail[1].how = "read"
           THEN [dir |-> dir, rdfFiles |-> <<>>,
                 err |-> "failed to read tar entry"]
           ELSE IF ~HasSuffix(entries[k], ".rdf")
           THEN extractTar(entries, k + 1, dir, rdfFiles, fail)
           ELSE IF failing /\ fail[1].how = "create"
           THEN [dir |-> dir, rdfFiles |-> <<>>,
                 err |-> "failed to create file"]
           ELSE IF failing /\ fail[1].how = "write"
           THEN [dir |-> WriteFile(dir, path, FALSE), rdfFiles |-> <<>>,
                 err |-> "failed to write file"]
           ELSE extractTar(entries, k + 1, WriteFile(dir, path, TRUE),
                           Append(rdfFiles, path), fail)

\* The names an archive can hold, in the lexical order of their paths in
\* the extraction directory.
EntryNames ==
  << <<"a", ".rdf">>, <<"b", ".rdf">>, <<"d", "/", "a", ".rdf">>,
     <<"d", "_", "a", ".rdf">>, <<"readme", ".txt">> >>

\* filepath.Walk visits the files in lexical order.
RECURSIVE Walk(_, _)
Walk(dir, k) ==
  IF k > Len(EntryNames) THEN <<>>
  ELSE (IF /\ \E f \in dir : f.path = Sanitize(EntryNames[k])
           /\ \A j \in 1..(k - 1) :
                 Sanitize(EntryNames[j]) # Sanitize(EntryNames[k])
        THEN <<Sanitize(EntryNames[k])>> ELSE <<>>) \o Walk(dir, k + 1)

\* ExtractRDFFiles from os.MkdirAll on: the directory is made, the archive
\* opened and the tar file in it extracted.
ExtractFromArchive(extractDir, zip, fail) ==
  IF fail # <<>> /\ fail[1].how = "open"
  THEN [dir |-> <<Coalesce(extractDir, <<{}>>)[1]>>, rdfFiles |-> <<>>,
        err |-> "failed to open zip file", extracted |-> FALSE]
  ELSE IF zip.tar = <<>>
  THEN [dir |-> <<Coalesce(extractDir, <<{}>>)[1]>>, rdfFiles |-> <<>>,
        err |-> "no tar file found in zip archive", extracted |-> FALSE]
  ELSE LET r == extractTar(zip.tar[1], 1, Coalesce(extractDir, <<{}>>)[1],
                           <<>>, fail)
       IN  [dir |-> <<r.dir>>, rdfFiles |-> r.rdfFiles, err |-> r.err,
            extracted |-> TRUE]

\* ExtractRDFFiles(zipPath) with the extraction directory extractDir, <<>>
\* when it does not exist and <<files>> when it does, and the archive zip at
\* zipPath; zip.tar is <<>> or <<entries>> of the tar file inside it.
ExtractRDFFiles(extractDir, zip, fail) ==
  LET found == IF extractDir = <<>> THEN <<>>
               ELSE Walk({f \in extractDir[1] : HasSuffix(f.path, ".rdf")}, 1)
  IN  IF extractDir # <<>> /\ extractDir[1] # {} /\ Len(found) > 0
      THEN [dir |-> extractDir, rdfFiles |-> found, err |-> "",
            extracted |-> FALSE]
      ELSE ExtractFromArchive(extractDir, zip, fail)

\* --------------------------------------------------------------- the state
VARIABLES
  files,      \* rdfFiles: the documents handed to Import
  workers,    \* imp.workers
  batchSize,  \* imp.batchSize
  resume,     \* imp.resume
  queue,      \* fileChan: indices into files, capacity imp.workers
  sent,       \* how many files the producer has sent
  closed,     \* close(fileChan) has run
  pc,         \* where each worker is
  cur,        \* the file a worker is deciding on
  batch,      \* each worker's batch (indices of the files parsed into it)
  flushAt,    \* insertBatch: the position in the batch
  connOwner,  \* the worker holding the one store connection, 0 if free
  store,      \* the committed database
  now,        \* the clock, read at each InsertBook
  stats,      \* imp.stats
  returned,   \* Import: "running" or the value returned
  store0,     \* the store when the run began
  outcome,    \* per file, the Record* calls made for it
  parsed,     \* the files ParseRDFFile was called on
  chkErr,     \* the files whose BookExists call returned an error
  prevStore,  \* SpecStore: the store before the last InsertBook
  lastBook,   \* SpecStore: the argument of the last InsertBook, <<>> if none
  lastErr,    \* SpecStore: the last InsertBook returned an error
  lastWrote,  \* SpecStore: the last call's transaction had changed rows
  ops,        \* SpecStore: InsertBook calls made
  tx,         \* per worker, its open transaction: <<>> or <<[t, at]>>
  committed,  \* the identifiers whose upsert transaction has committed
  commits,    \* the number of InsertBook calls of the run that committed
  mu,         \* ImportStats.mu: the worker holding it, 0 if unlocked
  inCall,     \* per worker inside a Record* call: <<>> or <<[kind, s]>>
  made,       \* per worker and kind, the Record* calls made
  summary,    \* the statistics printSummary read: <<>> or <<stats>>
  recorded,   \* SpecErrors: every non-nil message passed to RecordFailure
  input,      \* SpecParse: the function called and its argument, <<fn, arg>>
  result,     \* SpecParse: <<>> or <<the value returned>>
  zipFile,    \* SpecExtract: the archive at zipPath
  extractDir, \* SpecExtract: the extraction directory, <<>> or <<files>>
  listing,    \* SpecExtract: <<>> or <<what the last ExtractRDFFiles did>>
  calls,      \* SpecExtract: ExtractRDFFiles calls begun
  books,      \* BatchInsertBooks: the list it was called with
  bsize,      \* BatchInsertBooks: its batchSize argument
  bstart,     \* BatchInsertBooks: i, the start of the current batch
  bpos,       \* BatchInsertBooks: books of the current batch already ranged
  attempted,  \* BatchInsertBooks: the InsertBook calls made, in order
  bret,       \* BatchInsertBooks: "running" or the value returned
  pAt,        \* ImportWithProgress: files the range loop has finished
  pStore,     \* ImportWithProgress: the committed database of its run
  pStats,     \* ImportWithProgress: imp.stats of its run
  pOutcome,   \* ImportWithProgress: per file, the Record* calls made
  pChkErr,    \* ImportWithProgress: files whose BookExists call failed
  pRet        \* ImportWithProgress: "running" or the value returned

engineVars ==
  <<files, workers, batchSize, resume, queue, sent, closed, pc, cur, batch,
    flushAt, connOwner, stats, returned, store0, outcome, parsed, chkErr>>

storeGhosts == <<prevStore, lastBook, lastErr, lastWrote, ops>>

txVars == <<tx, committed, commits>>

statVars == <<mu, inCall, made, summary, recorded>>

parseVars == <<input, result>>

extractVars == <<zipFile, extractDir, listing, calls>>

batchVars == <<books, bsize, bstart, bpos, attempted, bret>>

progressVars == <<pAt, pStore, pStats, pOutcome, pChkErr, pRet>>

vars ==
  <<engineVars, store, now, storeGhosts, txVars, statVars, parseVars,
    extractVars, batchVars, progressVars>>

\* No function of the parser has been called.
NotParsing == input = <<>> /\ result = <<>>

\* No archive is at hand.
NotExtracting ==
  /\ zipFile = [tar |-> <<>>]
  /\ extractDir = <<>>
  /\ listing = <<>>
  /\ calls = 0

\* BatchInsertBooks has not been called.
NotBatching ==
  /\ books = <<>>
  /\ bsize = 1
  /\ bstart = 0
  /\ bpos = 0
  /\ attempted = <<>>
  /\ bret = "running"

\* ------------------------------------------------------------- ImportStats
ErrorCap == 100

NewImportStats(totalFiles) ==
  [TotalFiles |-> totalFiles, Processed |-> 0, Successful |-> 0,
   Failed |-> 0, Skipped |-> 0, Errors |-> <<>>]

RecordSuccess(s) ==
  [s EXCEPT !.Processed = @ + 1, !.Successful = @ + 1]

\* s.Errors[:100]: the oldest entries are kept, the newest dropped.
FirstN(q, n) == SubSeq(q, 1, n)

LastN(q, n) == SubSeq(q, Len(q) - n + 1, Len(q))

\* err is <<>> for a nil error, the message otherwise.
RecordFailure(s, err) ==
  [s EXCEPT !.Processed = @ + 1,
            !.Failed = @ + 1,
            !.Errors = IF err # <<>>
                       THEN IF Len(@) + 1 > ErrorCap
                            THEN LastN(Append(@, err), ErrorCap)
                            ELSE Append(@, err)
                       ELSE @]

\* A skip counted as skipped only, not as processed.
RecordSkippedUncounted(s) ==
  [s EXCEPT !.Skipped = @ + 1]

RecordSkipped(s) ==
  [s EXCEPT !.Processed = @ + 1, !.Skipped = @ + 1]

\* ImportWithProgress has not been called.
NotProgressing ==
  /\ pAt = 0
  /\ pStore = EmptyDB
  /\ pStats = NewImportStats(0)
  /\ pOutcome = <<>>
  /\ pChkErr = {}
  /\ pRet = "running"

\* ------------------------------------------------------ the import engine
Workers == 1..workers

\* The three calls a worker makes on the statistics.
Kinds == {"Succeeded", "Failed", "Skipped"}

BookOf(i) == ParseRDFFile(files[i]).book[1]

\* The outcome recorded for file i, with the statistics call that records it.
Record(i, what) ==
  /\ outcome' = [outcome EXCEPT ![i] = Append(@, what)]
  /\ stats' = CASE what = "Succeeded" -> RecordSuccess(stats)
                 [] what = "Skipped" -> RecordSkipped(stats)
                 [] OTHER -> RecordFailure(stats, <<what, i>>)

\* The worker without the identifier check: every parsed book joins the
\* batch.
ContinueWithoutIdCheck(w, i) ==
  LET r == ParseRDFFile(files[i])
  IN  IF r.err # ""
      THEN /\ Record(i, "FailedParse")
           /\ pc' = [pc EXCEPT ![w] = "recv"]
           /\ UNCHANGED <<batch, flushAt>>
      ELSE /\ batch' = [batch EXCEPT ![w] = Append(@, i)]
           /\ IF Len(batch[w]) + 1 >= batchSize
              THEN /\ pc' = [pc EXCEPT ![w] = "flush"]
                   /\ flushAt' = [flushAt EXCEPT ![w] = 1]
              ELSE /\ pc' = [pc EXCEPT ![w] = "recv"]
                   /\ UNCHANGED flushAt
           /\ UNCHANGED <<stats, outcome>>

\* worker, lines 131-152: the file was not skipped.  A parse error or an
\* empty identifier is recorded as a failure; otherwise the book joins the
\* batch, which is flushed when it reaches batchSize.
Continue(w, i) ==
  LET r == ParseRDFFile(files[i])
  IN  IF r.err # ""
      THEN /\ Record(i, "FailedParse")
           /\ pc' = [pc EXCEPT ![w] = "recv"]
           /\ UNCHANGED <<batch, flushAt>>
      ELSE IF r.book[1].GutenbergID = ""
      THEN /\ Record(i, "FailedNoIdentifier")
           /\ pc' = [pc EXCEPT ![w] = "recv"]
           /\ UNCHANGED <<batch, flushAt>>
      ELSE /\ batch' = [batch EXCEPT ![w] = Append(@, i)]
           /\ IF Len(batch[w]) + 1 >= batchSize
              THEN /\ pc' = [pc EXCEPT ![w] = "flush"]
                   /\ flushAt' = [flushAt EXCEPT ![w] = 1]
              ELSE /\ pc' = [pc EXCEPT ![w] = "recv"]
                   /\ UNCHANGED flushAt
           /\ UNCHANGED <<stats, outcome>>

\* imp.resume && err == nil && book != nil: the identifier is not looked at.
ShouldCheckAnyIdentifier(i) ==
  LET r == ParseRDFFile(files[i])
  IN  resume /\ r.err = "" /\ r.book # <<>>

\* imp.resume && err == nil && book != nil && book.GutenbergID != ""
ShouldCheck(i) ==
  LET r == ParseRDFFile(files[i])
  IN  resume /\ r.err = "" /\ r.book # <<>> /\ r.book[1].GutenbergID # ""

\* database/sql without SetMaxOpenConns: a connection is opened on demand.
ConnAlwaysIdle == TRUE

\* SetMaxOpenConns(1): a call gets the one connection when no transaction
\* holds it, and waits otherwise.
ConnIdle == connOwner = 0

\* for _, file := range rdfFiles { fileChan <- file }
Send ==
  /\ sent < Len(files)
  /\ Len(queue) < workers
  /\ queue' = Append(queue, sent + 1)
  /\ sent' = sent + 1
  /\ UNCHANGED <<files, workers, batchSize, resume, closed, pc, cur, batch,
                 flushAt, connOwner, stats, returned, store0, outcome, parsed,
                 chkErr, store, now, storeGhosts, parseVars, extractVars,
                 statVars, txVars, batchVars, progressVars>>

\* close(fileChan)
Close ==
  /\ sent = Len(files)
  /\ ~closed
  /\ closed' = TRUE
  /\ UNCHANGED <<files, workers, batchSize, resume, queue, sent, pc, cur,
                 batch, flushAt, connOwner, stats, returned, store0, outcome,
                 parsed, chkErr, store, now, storeGhosts, parseVars,
                 extractVars, statVars, txVars, batchVars, progressVars>>

\* for filePath := range fileChan: receive and parse one file.
Recv(w) ==
  /\ pc[w] = "recv"
  /\ queue # <<>>
  /\ LET i == Head(queue)
     IN  /\ queue' = Tail(queue)
         /\ parsed' = parsed \cup {i}
         /\ IF ShouldCheck(i)
            THEN /\ pc' = [pc EXCEPT ![w] = "exists"]
                 /\ cur' = [cur EXCEPT ![w] = i]
                 /\ UNCHANGED <<batch, flushAt, stats, outcome>>
            ELSE /\ Continue(w, i)
                 /\ UNCHANGED cur
  /\ UNCHANGED <<files, workers, batchSize, resume, sent, closed, connOwner,
                 returned, store0, chkErr, store, now, storeGhosts, parseVars,
                 extractVars, statVars, txVars, batchVars, progressVars>>

\* The worker that treats a failed existence check as "already stored".
ExistsSkipsOnError(w) ==
  /\ pc[w] = "exists"
  /\ ConnIdle
  /\ \E checkErr \in BOOLEAN :
       LET i == cur[w]
           exists == BookExists(store, BookOf(i).GutenbergID)
       IN  /\ chkErr' = IF checkErr THEN chkErr \cup {i} ELSE chkErr
           /\ IF checkErr \/ exists
              THEN /\ Record(i, "Skipped")
                   /\ pc' = [pc EXCEPT ![w] = "recv"]
                   /\ UNCHANGED <<batch, flushAt>>
              ELSE Continue(w, i)
  /\ UNCHANGED <<files, workers, batchSize, resume, queue, sent, closed, cur,
                 connOwner, returned, store0, parsed, store, now, storeGhosts,
                 parseVars, extractVars, statVars, txVars, batchVars,
                 progressVars>>

\* exists, checkErr := imp.db.BookExists(id); needs the store connection.
Exists(w) ==
  /\ pc[w] = "exists"
  /\ ConnIdle
  /\ \E checkErr \in BOOLEAN :
       LET i == cur[w]
           exists == BookExists(store, BookOf(i).GutenbergID)
       IN  /\ chkErr' = IF checkErr THEN chkErr \cup {i} ELSE chkErr
           /\ IF ~checkErr /\ exists
              THEN /\ Record(i, "Skipped")
                   /\ pc' = [pc EXCEPT ![w] = "recv"]
                   /\ UNCHANGED <<batch, flushAt>>
              ELSE Continue(w, i)
  /\ UNCHANGED <<files, workers, batchSize, resume, queue, sent, closed, cur,
                 connOwner, returned, store0, parsed, store, now, storeGhosts,
                 parseVars, extractVars, statVars, txVars, batchVars,
                 progressVars>>

\* The worker returns at the end of the range loop without the final flush.
DrainWithoutFlush(w) ==
  /\ pc[w] = "recv"
  /\ queue = <<>>
  /\ closed
  /\ pc' = [pc EXCEPT ![w] = "done"]
  /\ UNCHANGED <<files, workers, batchSize, resume, queue, sent, closed, cur,
                 batch, flushAt, connOwner, stats, returned, store0, outcome,
                 parsed, chkErr, store, now, storeGhosts, parseVars,
                 extractVars, statVars, txVars, batchVars, progressVars>>

\* The range loop ends on the closed, drained channel: flush the rest.
Drain(w) ==
  /\ pc[w] = "recv"
  /\ queue = <<>>
  /\ closed
  /\ IF Len(batch[w]) > 0
     THEN /\ pc' = [pc EXCEPT ![w] = "lastflush"]
          /\ flushAt' = [flushAt EXCEPT ![w] = 1]
     ELSE /\ pc' = [pc EXCEPT ![w] = "done"]
          /\ UNCHANGED flushAt
  /\ UNCHANGED <<files, workers, batchSize, resume, queue, sent, closed, cur,
                 batch, connOwner, stats, returned, store0, outcome, parsed,
                 chkErr, store, now, storeGhosts, parseVars, extractVars,
                 statVars, txVars, batchVars, progressVars>>

\* insertBatch returning to a worker that does not reset its buffer: the
\* flushed books stay in the batch.
NextInBatchKeepsBuffer(w) ==
  IF flushAt[w] < Len(batch[w])
  THEN /\ flushAt' = [flushAt EXCEPT ![w] = @ + 1]
       /\ UNCHANGED <<pc, batch>>
  ELSE /\ flushAt' = [flushAt EXCEPT ![w] = 0]
       /\ UNCHANGED batch
       /\ pc' = [pc EXCEPT ![w] = IF pc[w] = "lastflush" THEN "done"
                                                           ELSE "recv"]

\* insertBatch after the book at flushAt: the next book, or back to the
\* worker with batch = batch[:0].
NextInBatch(w) ==
  IF flushAt[w] < Len(batch[w])
  THEN /\ flushAt' = [flushAt EXCEPT ![w] = @ + 1]
       /\ UNCHANGED <<pc, batch>>
  ELSE /\ flushAt' = [flushAt EXCEPT ![w] = 0]
       /\ batch' = [batch EXCEPT ![w] = <<>>]
       /\ pc' = [pc EXCEPT ![w] = IF pc[w] = "lastflush" THEN "done"
                                                           ELSE "recv"]

Flushing(w) == pc[w] \in {"flush", "lastflush"}

\* InsertBook: db.conn.Begin() takes the connection, or fails.
TxBegin(w) ==
  /\ Flushing(w)
  /\ tx[w] = <<>>
  /\ ConnIdle
  /\ \/ /\ connOwner' = w
        /\ now' = now + 1
        /\ tx' = [tx EXCEPT ![w] =
                    LET book == BookOf(batch[w][flushAt[w]])
                    IN  <<[t  |-> RunStmts(store, Stmts(book), 1, book, now + 1),
                           at |-> 1]>>]
        /\ UNCHANGED <<pc, batch, flushAt, stats, outcome>>
     \/ /\ Record(batch[w][flushAt[w]], "FailedPersist")
        /\ NextInBatch(w)
        /\ UNCHANGED <<connOwner, now, tx>>
  /\ UNCHANGED <<files, workers, batchSize, resume, queue, sent, closed, cur,
                 returned, store0, parsed, chkErr, store, storeGhosts,
                 parseVars, extractVars, statVars, committed, commits,
                 batchVars, progressVars>>

\* insertBatch returning at the first InsertBook error: the books after the
\* failed one are dropped with the batch.
TxEndAbortsBatch(w) ==
  /\ Flushing(w)
  /\ tx[w] # <<>>
  /\ LET i == batch[w][flushAt[w]]
     IN  \E failAt \in {0} \cup (FailPoints(BookOf(i)) \ {1}) :
           LET r == InsertBook(store, BookOf(i), now, failAt)
           IN  /\ store' = r.db
               /\ Record(i, IF r.err THEN "FailedPersist" ELSE "Succeeded")
               /\ IF r.err
                  THEN /\ flushAt' = [flushAt EXCEPT ![w] = 0]
                       /\ batch' = [batch EXCEPT ![w] = <<>>]
                       /\ pc' = [pc EXCEPT ![w] =
                                   IF pc[w] = "lastflush" THEN "done" ELSE "recv"]
                  ELSE NextInBatch(w)
               /\ committed' = IF r.err THEN committed
                                ELSE committed \cup {BookOf(i).GutenbergID}
               /\ commits' = IF r.err THEN commits ELSE commits + 1
  /\ connOwner' = 0
  /\ tx' = [tx EXCEPT ![w] = <<>>]
  /\ UNCHANGED <<files, workers, batchSize, resume, queue, sent, closed, cur,
                 returned, store0, parsed, chkErr, now, storeGhosts,
                 parseVars, extractVars, statVars, batchVars, progressVars>>

\* InsertBook after Begin: the statements, Commit or the deferred Rollback,
\* the connection returned to the pool, the result recorded by insertBatch.
TxEnd(w) ==
  /\ Flushing(w)
  /\ tx[w] # <<>>
  /\ LET i == batch[w][flushAt[w]]
     IN  \E failAt \in {0} \cup (FailPoints(BookOf(i)) \ {1}) :
           LET r == InsertBook(store, BookOf(i), now, failAt)
           IN  /\ store' = r.db
               /\ Record(i, IF r.err THEN "FailedPersist" ELSE "Succeeded")
               /\ committed' = IF r.err THEN committed
                                ELSE committed \cup {BookOf(i).GutenbergID}
               /\ commits' = IF r.err THEN commits ELSE commits + 1
  /\ connOwner' = 0
  /\ tx' = [tx EXCEPT ![w] = <<>>]
  /\ NextInBatch(w)
  /\ UNCHANGED <<files, workers, batchSize, resume, queue, sent, closed, cur,
                 returned, store0, parsed, chkErr, now, storeGhosts,
                 parseVars, extractVars, statVars, batchVars, progressVars>>

\* wg.Wait(); bar.Finish(); imp.printSummary(); return nil.  printSummary
\* reads the counters and the error sample.
Return ==
  /\ returned = "running"
  /\ closed
  /\ \A w \in Workers : pc[w] = "done"
  /\ summary' = <<stats>>
  /\ returned' = "nil"
  /\ UNCHANGED <<files, workers, batchSize, resume, queue, sent, closed, pc,
                 cur, batch, flushAt, connOwner, stats, store0, outcome,
                 parsed, chkErr, store, now, storeGhosts, parseVars,
                 extractVars, txVars, mu, inCall, made, recorded, batchVars,
                 progressVars>>

RECURSIVE SeqsUpTo(_, _)
SeqsUpTo(S, n) ==
  IF n = 0 THEN {<<>>}
  ELSE LET shorter == SeqsUpTo(S, n - 1)
       IN  shorter \cup {Append(q, x) : q \in shorter, x \in S}

\* NewImporter and the head of Import, on the store NewDB opened.
Init ==
  /\ files \in {q \in SeqsUpTo(DocPool, MaxDocs) :
                  /\ q # <<>>
                  /\ \A i, j \in 1..Len(q) : q[i] = q[j] => i = j}
  /\ workers \in 1..MaxWorkers
  /\ batchSize \in 1..MaxBatch
  /\ resume \in BOOLEAN
  /\ store \in InitialStores
  /\ store0 = store
  /\ queue = <<>>
  /\ sent = 0
  /\ closed = FALSE
  /\ pc = [w \in Workers |-> "recv"]
  /\ cur = [w \in Workers |-> 0]
  /\ batch = [w \in Workers |-> <<>>]
  /\ flushAt = [w \in Workers |-> 0]
  /\ connOwner = 0
  /\ now = 0
  /\ stats = NewImportStats(Len(files))
  /\ returned = "running"
  /\ outcome = [i \in 1..Len(files) |-> <<>>]
  /\ parsed = {}
  /\ chkErr = {}
  /\ prevStore = EmptyDB
  /\ lastBook = <<>>
  /\ lastErr = FALSE
  /\ lastWrote = FALSE
  /\ ops = 0
  /\ tx = [w \in Workers |-> <<>>]
  /\ committed = Gids(store)
  /\ commits = 0
  /\ mu = 0
  /\ inCall = [w \in Workers |-> <<>>]
  /\ made = [w \in Workers |-> [k \in Kinds |-> 0]]
  /\ summary = <<>>
  /\ recorded = <<>>
  /\ NotParsing
  /\ NotExtracting
  /\ NotBatching
  /\ pAt = 0
  /\ pStore = store
  /\ pStats = NewImportStats(Len(files))
  /\ pOutcome = [i \in 1..Len(files) |-> <<>>]
  /\ pChkErr = {}
  /\ pRet = "running"

Next ==
  \/ Send
  \/ Close
  \/ \E w \in Workers : Recv(w)
  \/ \E w \in Workers : Exists(w)
  \/ \E w \in Workers : Drain(w)
  \/ \E w \in Workers : TxBegin(w)
  \/ \E w \in Workers : TxEnd(w)
  \/ Return

Spec == Init /\ [][Next]_vars

\* ------------------------------- the engine, InsertBook by statement
\* The same engine with each InsertBook taken one statement at a time: the
\* transaction's writes are in tx[w] until Commit makes them the store.
OpenTx(w) == tx[w][1]

TxBook(w) == BookOf(batch[w][flushAt[w]])

\* A statement of the transaction written straight to the store, where
\* every other call reads it before Commit.
TxStepWriteThrough(w) ==
  /\ Flushing(w)
  /\ tx[w] # <<>>
  /\ LET book  == TxBook(w)
         stmts == Stmts(book)
         o     == OpenTx(w)
         t     == ExecStmt(o.t, stmts[o.at + 1], book, now)
     IN  /\ o.at + 1 < Len(stmts)
         /\ tx' = [tx EXCEPT ![w] = <<[t |-> t, at |-> o.at + 1]>>]
         /\ store' = t.db
  /\ UNCHANGED <<engineVars, now, storeGhosts, parseVars, extractVars,
                 statVars, committed, commits, batchVars, progressVars>>

\* tx.Exec / tx.QueryRow: the next statement of the open transaction
\* succeeds; its effect is in the transaction only.
TxStep(w) ==
  /\ Flushing(w)
  /\ tx[w] # <<>>
  /\ LET book  == TxBook(w)
         stmts == Stmts(book)
         o     == OpenTx(w)
     IN  /\ o.at + 1 < Len(stmts)
         /\ tx' = [tx EXCEPT ![w] =
                     <<[t  |-> ExecStmt(o.t, stmts[o.at + 1], book, now),
                        at |-> o.at + 1]>>]
  /\ UNCHANGED <<engineVars, store, now, storeGhosts, parseVars, extractVars,
                 statVars, committed, commits, batchVars, progressVars>>

\* insertBatch that records a success whatever InsertBook returned.
TxFailRecordedAsSuccess(w) ==
  /\ Flushing(w)
  /\ tx[w] # <<>>
  /\ store' = Rollback(store, OpenTx(w).t.db)
  /\ Record(batch[w][flushAt[w]], "Succeeded")
  /\ NextInBatch(w)
  /\ connOwner' = 0
  /\ tx' = [tx EXCEPT ![w] = <<>>]
  /\ UNCHANGED <<files, workers, batchSize, resume, queue, sent, closed, cur,
                 returned, store0, parsed, chkErr, now, storeGhosts,
                 parseVars, extractVars, statVars, committed, commits,
                 batchVars, progressVars>>

\* A failed InsertBook that never gives the connection back to the pool.
TxFailKeepsConnection(w) ==
  /\ Flushing(w)
  /\ tx[w] # <<>>
  /\ store' = Rollback(store, OpenTx(w).t.db)
  /\ Record(batch[w][flushAt[w]], "FailedPersist")
  /\ NextInBatch(w)
  /\ tx' = [tx EXCEPT ![w] = <<>>]
  /\ UNCHANGED <<files, workers, batchSize, resume, queue, sent, closed, cur,
                 connOwner, returned, store0, parsed, chkErr, now,
                 storeGhosts, parseVars, extractVars, statVars, committed,
                 commits, batchVars, progressVars>>

\* The next statement (Commit included) fails: InsertBook returns the error,
\* the deferred Rollback runs, insertBatch records the failure and goes on.
TxFail(w) ==
  /\ Flushing(w)
  /\ tx[w] # <<>>
  /\ store' = Rollback(store, OpenTx(w).t.db)
  /\ Record(batch[w][flushAt[w]], "FailedPersist")
  /\ NextInBatch(w)
  /\ connOwner' = 0
  /\ tx' = [tx EXCEPT ![w] = <<>>]
  /\ UNCHANGED <<files, workers, batchSize, resume, queue, sent, closed, cur,
                 returned, store0, parsed, chkErr, now, storeGhosts,
                 parseVars, extractVars, statVars, committed, commits,
                 batchVars, progressVars>>

\* tx.Commit() after the last statement; insertBatch records the success.
TxCommit(w) ==
  /\ Flushing(w)
  /\ tx[w] # <<>>
  /\ OpenTx(w).at + 1 = Len(Stmts(TxBook(w)))
  /\ store' = Commit(store, OpenTx(w).t.db)
  /\ committed' = committed \cup {TxBook(w).GutenbergID}
  /\ commits' = commits + 1
  /\ Record(batch[w][flushAt[w]], "Succeeded")
  /\ NextInBatch(w)
  /\ connOwner' = 0
  /\ tx' = [tx EXCEPT ![w] = <<>>]
  /\ UNCHANGED <<files, workers, batchSize, resume, queue, sent, closed, cur,
                 returned, store0, parsed, chkErr, now, storeGhosts,
                 parseVars, extractVars, statVars, batchVars, progressVars>>

InitTx == Init /\ Len(files) <= MaxTxDocs

NextTx ==
  \/ Send
  \/ Close
  \/ \E w \in Workers : Recv(w)
  \/ \E w \in Workers : Exists(w)
  \/ \E w \in Workers : Drain(w)
  \/ \E w \in Workers : TxBegin(w)
  \/ \E w \in Workers : TxStep(w)
  \/ \E w \in Workers : TxFail(w)
  \/ \E w \in Workers : TxCommit(w)
  \/ Return

SpecTx == InitTx /\ [][NextTx]_vars

\* One step of the goroutine of worker w.
WorkerStep(w) ==
  /\ w \in Workers
  /\ \/ Recv(w)
     \/ Exists(w)
     \/ Drain(w)
     \/ TxBegin(w)
     \/ TxStep(w)
     \/ TxFail(w)
     \/ TxCommit(w)

\* The same engine under the Go scheduler: the goroutine of Import and the
\* goroutine of each worker take a step when they can take one for good
\* (a channel operation that is ready, a connection request while the
\* connection is free, a statement that returns).
FairSpecTx ==
  /\ SpecTx
  /\ WF_vars(Send \/ Close \/ Return)
  /\ \A w \in 1..MaxWorkers : WF_vars(WorkerStep(w))

\* ------------------------------------------- the statistics, call by call
\* ImportStats under the workers of a run.  What a worker calls, and how
\* often, is left open; each call is s.mu.Lock(), then the update of the
\* fields as read under the lock and the deferred Unlock.
Calls(w) == made[w]["Succeeded"] + made[w]["Failed"] + made[w]["Skipped"]

RECURSIVE CallsUpTo(_)
CallsUpTo(n) == IF n = 0 THEN 0 ELSE Calls(n) + CallsUpTo(n - 1)

\* The methods without s.mu.Lock(): a call never waits.
MuNeverWaits == TRUE

\* s.mu.Lock() returns when no other call holds the mutex.
MuFree == mu = 0

\* s.mu.Lock() at the head of RecordSuccess, RecordFailure or RecordSkipped.
StatEnter(w, kind) ==
  /\ pc[w] = "recv"
  /\ CallsUpTo(workers) < MaxDocs
  /\ MuFree
  /\ mu' = w
  /\ pc' = [pc EXCEPT ![w] = "stat"]
  /\ inCall' = [inCall EXCEPT ![w] = <<[kind |-> kind, s |-> stats]>>]
  /\ made' = [made EXCEPT ![w][kind] = @ + 1]
  /\ UNCHANGED <<files, workers, batchSize, resume, queue, sent, closed, cur,
                 batch, flushAt, connOwner, stats, returned, store0, outcome,
                 parsed, chkErr, store, now, storeGhosts, parseVars,
                 extractVars, txVars, summary, recorded, batchVars,
                 progressVars>>

\* The body of the method and the deferred s.mu.Unlock().
StatLeave(w) ==
  /\ pc[w] = "stat"
  /\ LET c == inCall[w][1]
     IN  stats' = CASE c.kind = "Succeeded" -> RecordSuccess(c.s)
                    [] c.kind = "Skipped" -> RecordSkipped(c.s)
                    [] c.kind = "Failed" ->
                         RecordFailure(c.s, <<"error", w, Calls(w)>>)
  /\ mu' = 0
  /\ pc' = [pc EXCEPT ![w] = "recv"]
  /\ inCall' = [inCall EXCEPT ![w] = <<>>]
  /\ UNCHANGED <<files, workers, batchSize, resume, queue, sent, closed, cur,
                 batch, flushAt, connOwner, returned, store0, outcome, parsed,
                 chkErr, store, now, storeGhosts, parseVars, extractVars,
                 txVars, made, summary, recorded, batchVars, progressVars>>

\* Import after close(fileChan), the workers still running.
InitStats ==
  /\ files = <<>>
  /\ workers \in 1..MaxWorkers
  /\ batchSize = 1
  /\ resume = FALSE
  /\ store = EmptyDB
  /\ store0 = store
  /\ queue = <<>>
  /\ sent = 0
  /\ closed = TRUE
  /\ pc = [w \in Workers |-> "recv"]
  /\ cur = [w \in Workers |-> 0]
  /\ batch = [w \in Workers |-> <<>>]
  /\ flushAt = [w \in Workers |-> 0]
  /\ connOwner = 0
  /\ now = 0
  /\ stats = NewImportStats(MaxDocs)
  /\ returned = "running"
  /\ outcome = <<>>
  /\ parsed = {}
  /\ chkErr = {}
  /\ prevStore = EmptyDB
  /\ lastBook = <<>>
  /\ lastErr = FALSE
  /\ lastWrote = FALSE
  /\ ops = 0
  /\ tx = [w \in Workers |-> <<>>]
  /\ committed = {}
  /\ commits = 0
  /\ mu = 0
  /\ inCall = [w \in Workers |-> <<>>]
  /\ made = [w \in Workers |-> [k \in Kinds |-> 0]]
  /\ summary = <<>>
  /\ recorded = <<>>
  /\ NotParsing
  /\ NotExtracting
  /\ NotBatching
  /\ NotProgressing

NextStats ==
  \/ \E w \in Workers : \E kind \in Kinds : StatEnter(w, kind)
  \/ \E w \in Workers : StatLeave(w)
  \/ \E w \in Workers : Drain(w)
  \/ Return

SpecStats == InitStats /\ [][NextStats]_vars

\* ------------------------------------------------------- the store alone
\* The importer before Import is called, on an empty store.
ImporterIdle ==
  /\ store = EmptyDB
  /\ now = 0
  /\ prevStore = EmptyDB
  /\ lastBook = <<>>
  /\ lastErr = FALSE
  /\ lastWrote = FALSE
  /\ ops = 0
  /\ files = <<>>
  /\ workers = 1
  /\ batchSize = 1
  /\ resume = FALSE
  /\ store0 = store
  /\ queue = <<>>
  /\ sent = 0
  /\ closed = FALSE
  /\ pc = [w \in Workers |-> "recv"]
  /\ cur = [w \in Workers |-> 0]
  /\ batch = [w \in Workers |-> <<>>]
  /\ flushAt = [w \in Workers |-> 0]
  /\ connOwner = 0
  /\ stats = NewImportStats(0)
  /\ returned = "running"
  /\ outcome = <<>>
  /\ parsed = {}
  /\ chkErr = {}
  /\ tx = [w \in Workers |-> <<>>]
  /\ committed = Gids(store)
  /\ commits = 0
  /\ mu = 0
  /\ inCall = [w \in Workers |-> <<>>]
  /\ made = [w \in Workers |-> [k \in Kinds |-> 0]]
  /\ summary = <<>>
  /\ recorded = <<>>
  /\ NotProgressing

InitStore == ImporterIdle /\ NotParsing /\ NotExtracting /\ NotBatching

\* One call of InsertBook, committing or failing at one of its statements.
Upsert(book, failAt) ==
  /\ ops < MaxOps
  /\ LET r == InsertBook(store, book, now + 1, failAt)
     IN  /\ store' = r.db
         /\ lastErr' = r.err
         /\ committed' = IF r.err THEN committed
                          ELSE committed \cup {book.GutenbergID}
         /\ commits' = IF r.err THEN commits ELSE commits + 1
  /\ lastWrote' = (TxWork(store, book, now + 1, failAt) # store)
  /\ prevStore' = store
  /\ lastBook' = <<book>>
  /\ now' = now + 1
  /\ ops' = ops + 1
  /\ UNCHANGED <<engineVars, tx, statVars, parseVars, extractVars, batchVars,
                 progressVars>>

NextStore ==
  \E book \in BookPool : \E failAt \in {0} \cup FailPoints(book) :
     Upsert(book, failAt)

SpecStore == InitStore /\ [][NextStore]_vars

\* ----------------------------------------------------- ImportWithProgress
\* One iteration of the range loop of ImportWithProgress, on a store of its
\* own that started as the store of Import did: under resume the file is
\* parsed and BookExists asked when it has an identifier; a file not
\* skipped is parsed again and goes to InsertBook at once, without a batch.
ProgressFile ==
  /\ pRet = "running"
  /\ pAt < Len(files)
  /\ LET i == pAt + 1
         r == ParseRDFFile(files[i])
         check == resume /\ r.err = "" /\ r.book[1].GutenbergID # ""
         done(what, db) ==
           /\ pOutcome' = [pOutcome EXCEPT ![i] = Append(@, what)]
           /\ pStats' = CASE what = "Succeeded" -> RecordSuccess(pStats)
                           [] what = "Skipped" -> RecordSkipped(pStats)
                           [] OTHER -> RecordFailure(pStats, <<what, i>>)
           /\ pStore' = db
     IN  \E checkErr \in IF check THEN BOOLEAN ELSE {FALSE} :
           /\ pChkErr' = IF checkErr THEN pChkErr \cup {i} ELSE pChkErr
           /\ IF check /\ ~checkErr
                 /\ BookExists(pStore, r.book[1].GutenbergID)
              THEN done("Skipped", pStore)
              ELSE IF r.err # ""
              THEN done("FailedParse", pStore)
              ELSE IF r.book[1].GutenbergID = ""
              THEN done("FailedNoIdentifier", pStore)
              ELSE \E failAt \in {0} \cup FailPoints(r.book[1]) :
                     LET t == InsertBook(pStore, r.book[1], pAt + 1, failAt)
                     IN  done(IF t.err THEN "FailedPersist" ELSE "Succeeded",
                              t.db)
  /\ pAt' = pAt + 1
  /\ UNCHANGED <<engineVars, store, now, storeGhosts, txVars, statVars,
                 parseVars, extractVars, batchVars, pRet>>

\* bar.Finish(); imp.printSummary(); return nil
ProgressReturn ==
  /\ pRet = "running"
  /\ pAt = Len(files)
  /\ pRet' = "nil"
  /\ UNCHANGED <<engineVars, store, now, storeGhosts, txVars, statVars,
                 parseVars, extractVars, batchVars, pAt, pStore, pStats,
                 pOutcome, pChkErr>>

\* Import and ImportWithProgress, each run once on the same list, settings
\* and initial store.  The runs share nothing, so their steps commute, and
\* ImportWithProgress is run when Import has returned.
NextEngines ==
  \/ Next
  \/ returned = "nil" /\ ProgressFile
  \/ returned = "nil" /\ ProgressReturn

SpecEngines == InitTx /\ [][NextEngines]_vars

\* ------------------------------------------------------- BatchInsertBooks
MaxBooks == 3

\* The books handed to BatchInsertBooks: two identifiers, one of them under
\* two titles.
BatchPool ==
  { Book("1", "t1", <<>>, <<>>, <<>>, <<>>),
    Book("1", "t2", <<>>, <<>>, <<>>, <<>>),
    Book("2", "t1", <<>>, <<>>, <<>>, <<>>) }

\* BatchInsertBooks(books, batchSize) called on an open store.
InitBatch ==
  /\ ImporterIdle
  /\ NotParsing
  /\ NotExtracting
  /\ books \in SeqsUpTo(BatchPool, MaxBooks)
  /\ bsize \in 1..MaxBatch
  /\ bstart = 0
  /\ bpos = 0
  /\ attempted = <<>>
  /\ bret = "running"

\* end := i + batchSize; if end > len(books) { end = len(books) }
BatchEnd == IF bstart + bsize > Len(books) THEN Len(books) ELSE bstart + bsize

\* The loop that returns the first InsertBook error to its caller.
InsertNextOrReturn ==
  /\ bret = "running"
  /\ bstart < Len(books)
  /\ bstart + bpos < BatchEnd
  /\ LET k == bstart + bpos + 1
     IN  \E failAt \in {0} \cup FailPoints(books[k]) :
           LET r == InsertBook(store, books[k], now + 1, failAt)
           IN  /\ store' = r.db
               /\ attempted' = Append(attempted, [k |-> k, err |-> r.err])
               /\ committed' = IF r.err THEN committed
                                ELSE committed \cup {books[k].GutenbergID}
               /\ commits' = IF r.err THEN commits ELSE commits + 1
               /\ bret' = IF r.err THEN "error" ELSE bret
  /\ now' = now + 1
  /\ bpos' = bpos + 1
  /\ UNCHANGED <<engineVars, storeGhosts, tx, statVars, parseVars,
                 extractVars, books, bsize, bstart, progressVars>>

\* for _, book := range batch: InsertBook on the next book of the batch; an
\* error is logged and the loop goes on.
InsertNext ==
  /\ bret = "running"
  /\ bstart < Len(books)
  /\ bstart + bpos < BatchEnd
  /\ LET k == bstart + bpos + 1
     IN  \E failAt \in {0} \cup FailPoints(books[k]) :
           LET r == InsertBook(store, books[k], now + 1, failAt)
           IN  /\ store' = r.db
               /\ attempted' = Append(attempted, [k |-> k, err |-> r.err])
               /\ committed' = IF r.err THEN committed
                                ELSE committed \cup {books[k].GutenbergID}
               /\ commits' = IF r.err THEN commits ELSE commits + 1
  /\ now' = now + 1
  /\ bpos' = bpos + 1
  /\ UNCHANGED <<engineVars, storeGhosts, tx, statVars, parseVars,
                 extractVars, books, bsize, bstart, bret, progressVars>>

\* i += batchSize, at the end of a batch.
NextBatch ==
  /\ bret = "running"
  /\ bstart < Len(books)
  /\ bstart + bpos = BatchEnd
  /\ bstart' = bstart + bsize
  /\ bpos' = 0
  /\ UNCHANGED <<engineVars, store, now, storeGhosts, txVars, statVars,
                 parseVars, extractVars, books, bsize, attempted, bret,
                 progressVars>>

\* i < len(books) is false: return nil.
BatchReturn ==
  /\ bret = "running"
  /\ bstart >= Len(books)
  /\ bret' = "nil"
  /\ UNCHANGED <<engineVars, store, now, storeGhosts, txVars, statVars,
                 parseVars, extractVars, books, bsize, bstart, bpos,
                 attempted, progressVars>>

NextBatchInsert ==
  \/ InsertNext
  \/ NextBatch
  \/ BatchReturn

\* The call runs in the caller's goroutine, which is scheduled while it can
\* take a step.
FairSpecBatch ==
  InitBatch /\ [][NextBatchInsert]_vars /\ WF_vars(NextBatchInsert)

\* ------------------------------------------------------ the error sample
\* One call of RecordFailure on its own; err is nil or a message.
Failure(err) ==
  /\ stats.Failed < MaxFailures
  /\ err = <<>> => stats.Failed - Len(recorded) < MaxNil
  /\ stats' = RecordFailure(stats, err)
  /\ recorded' = IF err # <<>> THEN Append(recorded, err) ELSE recorded
  /\ UNCHANGED <<files, workers, batchSize, resume, queue, sent, closed, pc,
                 cur, batch, flushAt, connOwner, returned, store0, outcome,
                 parsed, chkErr, store, now, storeGhosts, parseVars,
                 extractVars, txVars, mu, inCall, made, summary, batchVars,
                 progressVars>>

NextErrors ==
  \E err \in {<<>>, <<"error", stats.Failed + 1>>} : Failure(err)

SpecErrors == InitStore /\ [][NextErrors]_vars

\* ------------------------------------------------------- the parser alone
MaxUriLen   == 4   \* characters of an about attribute
MaxDateLen  == 5   \* characters of a birthdate or deathdate
MaxNameLen  == 5   \* characters of an agent's name
MaxUrlParts == 2   \* parts a file's URL is put together from
MaxLangs    == 2   \* language elements of an ebook
MaxEntries  == 2   \* creators, subjects or bookshelves of an ebook

Uris == SeqsUpTo({"/", "1", "2", "e"}, MaxUriLen)

Dates == SeqsUpTo({"1", "2", "-"}, MaxDateLen)

Names == SeqsUpTo({"a", "b", " ", ","}, MaxNameLen)

\* An ebook element without attributes or children.
EmptyEbook ==
  [About |-> <<>>, Title |-> <<>>, Language |-> <<>>, Creator |-> <<>>,
   Subject |-> <<>>, Bookshelf |-> <<>>, Format |-> <<>>]

RDF(ebook) == [root |-> "RDF", Ebook |-> <<ebook>>]

\* A nested Description with a value, as a pointer.
Described(value) == <<[Value |-> value]>>

File(about, extent, format) ==
  [File |-> <<[About |-> about, Extent |-> extent, Format |-> format]>>]

\* The documents ParseRDF is called on: content without a root element,
\* with another root, with an RDF root and nothing in it, and ebooks that
\* differ from the empty one in one attribute or one kind of child.  A
\* file's URL is put together from parts; its declared type is absent or a
\* Description with a value.
Documents ==
  LET urlParts ==
        { <<"e", "p", "u", "b">>, <<"E", "P", "U", "B">>, <<"e", "p">>,
          <<"u", "b">>, <<"k", "i", "n", "d", "l", "e">>,
          <<"m", "o", "b", "i">>, <<"h", "t", "m", "l">>,
          <<"t", "x", "t">>, <<"p", "l", "a", "i", "n">>, <<"x">> }
      urls == {Join(q, <<>>) : q \in SeqsUpTo(urlParts, MaxUrlParts)}
      declaredTypes ==
        {<<>>} \cup {Described(v) :
                       v \in {<<" ">>, <<"x">>,
                              <<" ">> \o MediaType("html") \o <<" ">>}}
      noFile == [File |-> <<>>]
      formatElems ==
        {noFile}
          \cup {File(u, <<>>, d) : u \in urls, d \in declaredTypes}
          \cup {File(<<"x">>, e, <<>>) :
                  e \in {<<"1", "0">>, <<" ", "1", "0">>, <<"-", "1">>,
                         <<"x">>}}
      formatLists ==
        {<<f>> : f \in formatElems}
          \cup {<<f, g>> :
                  f, g \in {noFile,
                            File(<<>>, <<>>, Described(MediaType("html"))),
                            File(<<"a", ".", "e", "p", "u", "b">>, <<>>, <<>>),
                            File(<<"x">>, <<>>, <<>>)}}
      languageElems ==
        [Description : {<<>>} \cup {Described(v) :
                                      v \in {<<" ">>, <<" ", "e", "n">>}},
         Resource : {<<>>, <<"r">>},
         Value : {<<>>, <<"v", " ">>}]
      valueElems ==
        [Description : {<<>>} \cup {Described(v) :
                                      v \in {<<" ">>, <<"a">>, <<" ", "a">>,
                                             <<"b">>}}]
      agents ==
        [About : {<<"x">>},
         Name : {<<" ">>, <<"a">>, <<"b", ",", " ", "a">>},
         BirthDate : {<<>>, <<"1", "8", "3", "5">>},
         DeathDate : {<<>>},
         Alias : {<<>>, << <<"p">>, <<" ">>, <<"q">> >>},
         Webpage : {<<>>}]
      creatorElems == {[Agent |-> <<>>]} \cup {[Agent |-> <<a>>] : a \in agents}
  IN  {[root |-> r, Ebook |-> <<>>] : r \in {"", "html", "RDF"}}
        \cup {RDF([EmptyEbook EXCEPT !.About = u, !.Title = <<" ", "t">>]) :
                u \in Uris}
        \cup {RDF([EmptyEbook EXCEPT !.Language = l]) :
                l \in SeqsUpTo(languageElems, MaxLangs)}
        \cup {RDF([EmptyEbook EXCEPT !.Creator = c]) :
                c \in SeqsUpTo(creatorElems, MaxEntries)}
        \cup {RDF([EmptyEbook EXCEPT !.Subject = v]) :
                v \in SeqsUpTo(valueElems, MaxEntries)}
        \cup {RDF([EmptyEbook EXCEPT !.Bookshelf = v]) :
                v \in SeqsUpTo(valueElems, MaxEntries)}
        \cup {RDF([EmptyEbook EXCEPT !.Format = f]) : f \in formatLists}

\* One call of a function of the parser on an argument: <<fn, arg>>.
InitParse ==
  /\ ImporterIdle
  /\ NotBatching
  /\ NotExtracting
  /\ result = <<>>
  /\ \/ input \in {<<"ParseRDF", doc>> : doc \in Documents}
     \/ input \in {<<"extractGutenbergID", uri>> : uri \in Uris}
     \/ input \in {<<"extractYear", date>> : date \in Dates}
     \/ input \in {<<"splitName", name>> : name \in Names}

Calling(fn) == input # <<>> /\ input[1] = fn /\ result = <<>>

CallParseRDF ==
  /\ Calling("ParseRDF")
  /\ result' = <<ParseRDF(input[2])>>
  /\ UNCHANGED <<engineVars, store, now, storeGhosts, txVars, statVars, input,
                 extractVars, batchVars, progressVars>>

CallExtractGutenbergID ==
  /\ Calling("extractGutenbergID")
  /\ result' = <<extractGutenbergID(input[2])>>
  /\ UNCHANGED <<engineVars, store, now, storeGhosts, txVars, statVars, input,
                 extractVars, batchVars, progressVars>>

CallExtractYear ==
  /\ Calling("extractYear")
  /\ result' = <<extractYear(input[2])>>
  /\ UNCHANGED <<engineVars, store, now, storeGhosts, txVars, statVars, input,
                 extractVars, batchVars, progressVars>>

CallSplitName ==
  /\ Calling("splitName")
  /\ result' = <<splitName(input[2])>>
  /\ UNCHANGED <<engineVars, store, now, storeGhosts, txVars, statVars, input,
                 extractVars, batchVars, progressVars>>

NextParse ==
  \/ CallParseRDF
  \/ CallExtractGutenbergID
  \/ CallExtractYear
  \/ CallSplitName

SpecParse == InitParse /\ [][NextParse]_vars

\* ------------------------------------------------------ the archive alone
MaxTarEntries == 3   \* entries of the tar file in the archive
MaxCalls      == 3   \* ExtractRDFFiles calls in a behaviour

\* The archives at zipPath: without a tar file, or with one whose entries
\* have different names.
Archives ==
  {[tar |-> <<>>]}
    \cup {[tar |-> <<q>>] :
            q \in {e \in SeqsUpTo({EntryNames[k] : k \in DOMAIN EntryNames},
                                  MaxTarEntries) :
                     \A i, j \in 1..Len(e) : e[i] = e[j] => i = j}}

\* What can go wrong in a call: opening the archive, or reading, creating
\* or writing the file of one entry.
Fails(zip) ==
  {<<>>, <<[at |-> 0, how |-> "open"]>>}
    \cup (IF zip.tar = <<>> THEN {}
          ELSE {<<[at |-> k, how |-> h]>> :
                  k \in 1..Len(zip.tar[1]), h \in {"read", "create", "write"}})

InitExtract ==
  /\ ImporterIdle
  /\ NotBatching
  /\ NotParsing
  /\ zipFile \in Archives
  /\ extractDir = <<>>
  /\ listing = <<>>
  /\ calls = 0

\* One call of ExtractRDFFiles that returns.
Extract(fail) ==
  /\ calls < MaxCalls
  /\ LET r == ExtractRDFFiles(extractDir, zipFile, fail)
     IN  /\ extractDir' = r.dir
         /\ listing' = <<[rdfFiles |-> r.rdfFiles, err |-> r.err,
                          extracted |-> r.extracted,
                          found |-> extractDir \notin {<<>>, <<{}>>}]>>
  /\ calls' = calls + 1
  /\ UNCHANGED <<engineVars, store, now, storeGhosts, txVars, statVars,
                 parseVars, zipFile, batchVars, progressVars>>

\* One call of ExtractRDFFiles that ends with the process, at the entry
\* where fail says: the files written until then stay.
Interrupt(fail) ==
  /\ calls < MaxCalls
  /\ fail # <<>>
  /\ LET r == ExtractRDFFiles(extractDir, zipFile, fail)
     IN  /\ r.extracted
         /\ extractDir' = r.dir
  /\ listing' = <<>>
  /\ calls' = calls + 1
  /\ UNCHANGED <<engineVars, store, now, storeGhosts, txVars, statVars,
                 parseVars, zipFile, batchVars, progressVars>>

NextExtract ==
  \/ \E fail \in Fails(zipFile) : Extract(fail)
  \/ \E fail \in Fails(zipFile) : Interrupt(fail)

SpecExtract == InitExtract /\ [][NextExtract]_vars

\* ======================================================== the store, claims
LastBook == lastBook[1]

Committed == lastBook # <<>> /\ ~lastErr

SubFields == {"first_name", "last_name", "agent_id", "alias", "webpage"}

\* The value a contributor of a Book carries for a column of the authors table.
Incoming(author, f) ==
  CASE f = "first_name" -> author.FirstName
    [] f = "last_name" -> author.LastName
    [] f = "agent_id" -> author.AgentID
    [] f = "alias" -> author.Alias
    [] f = "webpage" -> author.Webpage

\* The contributors of a book that name the identity of a stored row.
Naming(book, row) ==
  {k \in 1..Len(book.Authors) : SameAuthorKey(row, book.Authors[k])}

RowAfter(row) == CHOOSE q \in store.authors : q.id = row.id

\* C2: a call of InsertBook that fails at any statement (Begin, the record
\* row, a contributor lookup, insert or backfill, a link, the format delete
\* or insert, Commit) returns an error and leaves the store exactly as it
\* was before the call.
C2_Atomic ==
  (lastBook # <<>> /\ lastErr) => store = prevStore

\* A call failed after the transaction had already written.
C2_Witness ==
  /\ lastBook # <<>>
  /\ lastErr
  /\ lastWrote
  /\ store = prevStore

\* C3: in every reachable store and for every Record R, InsertBook(R)
\* applied twice leaves the same contents as InsertBook(R) applied once.
C3_Idempotent ==
  \A book \in BookPool :
     LET once  == InsertBook(store, book, now + 1, 0).db
         twice == InsertBook(once, book, now + 2, 0).db
     IN  Contents(twice) = Contents(once)

\* A Record with contributors or formats was imported again with the stored
\* record, contributors, links and formats already those of the Record.
C3_Witness ==
  /\ Committed
  /\ BookExists(prevStore, LastBook.GutenbergID)
  /\ Len(LastBook.Formats) > 0
  /\ Contents(store) = Contents(prevStore)
  /\ store.formats # prevStore.formats

\* C6: (fill-empty-only, replace direction) after a committed InsertBook,
\* every backfilled column that was non-empty in a stored contributor row
\* still holds the stored value.
C6_NeverReplaced ==
  Committed =>
    \A row \in prevStore.authors : \A f \in SubFields :
       row[f] # "" => RowAfter(row)[f] = row[f]

\* C7: after a committed InsertBook, for every stored contributor row the
\* Record names and every backfilled column: when every incoming value is
\* empty the stored value is kept, and when the stored value is empty and an
\* incoming value is not, the column holds an incoming non-empty value.
C7_Backfill ==
  Committed =>
    \A row \in prevStore.authors : \A f \in SubFields :
       LET in == {Incoming(LastBook.Authors[k], f) : k \in Naming(LastBook, row)}
       IN  /\ in \subseteq {""} => RowAfter(row)[f] = row[f]
           /\ (row[f] = "" /\ in \ {""} # {}) => RowAfter(row)[f] \in in \ {""}

\* One upsert of an existing identity filled an empty column and met a
\* non-empty column with an empty incoming value.
C7_Witness ==
  /\ Committed
  /\ \E row \in prevStore.authors :
       /\ Naming(LastBook, row) # {}
       /\ \A k \in Naming(LastBook, row) :
            /\ LastBook.Authors[k].Alias # ""
            /\ LastBook.Authors[k].FirstName = ""
       /\ row.alias = ""
       /\ row.first_name # ""
       /\ RowAfter(row).alias # ""
       /\ RowAfter(row).first_name = row.first_name

\* C8: after a committed InsertBook(R), the stored formats of R are the
\* format list of R when that list is not empty, and the formats stored
\* before the call when it is empty.
C8_FormatSnapshot ==
  Committed =>
    FormatsOf(store, LastBook.GutenbergID) =
      IF Len(LastBook.Formats) > 0
      THEN LastBook.Formats
      ELSE FormatsOf(prevStore, LastBook.GutenbergID)

\* A Record stored with two formats was imported again with one.
C8_Witness ==
  /\ Committed
  /\ Len(FormatsOf(prevStore, LastBook.GutenbergID)) > Len(LastBook.Formats)
  /\ Len(LastBook.Formats) > 0
  /\ FormatsOf(store, LastBook.GutenbergID) = LastBook.Formats

\* C16: a re-import of a stored identifier changes only the record's scalar
\* fields.  After a committed InsertBook every record row stored before the
\* call is still there under its id, with its identifier and its creation
\* timestamp; the row of the imported identifier holds the incoming scalar
\* fields and every other row is as it was.
C16_CreatedAtPreserved ==
  Committed =>
    \A r0 \in prevStore.books :
       \E r \in store.books :
          /\ r.id = r0.id
          /\ r.gutenberg_id = r0.gutenberg_id
          /\ r.created_at = r0.created_at
          /\ IF r0.gutenberg_id = LastBook.GutenbergID
             THEN BookCols(r) =
                    [gutenberg_id |-> LastBook.GutenbergID,
                     title |-> LastBook.Title,
                     language |-> LastBook.Language,
                     download_count |-> LastBook.DownloadCount]
             ELSE r = r0

\* A stored record was imported again, later, with another title.
C16_Witness ==
  /\ Committed
  /\ \E r0 \in prevStore.books : \E r \in store.books :
       /\ r0.gutenberg_id = LastBook.GutenbergID
       /\ r.id = r0.id
       /\ r0.title # LastBook.Title
       /\ r.title = LastBook.Title
       /\ r.created_at = r0.created_at
       /\ r.created_at < now

\* C17: subject and bookshelf values are unique in the store.  In every
\* store no two subject rows hold the same string and no two bookshelf rows
\* hold the same string; after a committed InsertBook each subject and
\* bookshelf of the Record is one row, linked to the Record's row.
C17_ValuesUnique ==
  /\ \A t \in {"subjects", "bookshelves"} :
       \A a, b \in store[t] : a.value = b.value => a = b
  /\ Committed =>
       LET bookID == SelectBookID(store, LastBook.GutenbergID)
       IN  /\ \A k \in 1..Len(LastBook.Subjects) :
                \E r \in store.subjects :
                   /\ r.value = LastBook.Subjects[k]
                   /\ <<bookID, r.id>> \in store.book_subjects
           /\ \A k \in 1..Len(LastBook.Bookshelves) :
                \E r \in store.bookshelves :
                   /\ r.value = LastBook.Bookshelves[k]
                   /\ <<bookID, r.id>> \in store.book_bookshelves

\* Two Records, one naming the subject twice, share one subject row.
C17_Witness ==
  /\ Committed
  /\ Len(LastBook.Subjects) = 2
  /\ LastBook.Subjects[1] = LastBook.Subjects[2]
  /\ Cardinality(store.subjects) = 1
  /\ Cardinality(store.books) = 2
  /\ Cardinality(store.book_subjects) = 2
  /\ Cardinality(store.bookshelves) = 1

\* C18: referential integrity.  In every committed store each
\* record-contributor, record-subject and record-bookshelf link names a
\* record row and an entity row that are in the store, and each format row
\* names a record row that is in the store.
C18_ReferentialIntegrity ==
  LET bookIDs == {r.id : r \in store.books}
      Sound(linkTable, table) ==
        \A l \in store[linkTable] :
           l[1] \in bookIDs /\ l[2] \in {r.id : r \in store[table]}
  IN  /\ Sound("book_authors", "authors")
      /\ Sound("book_subjects", "subjects")
      /\ Sound("book_bookshelves", "bookshelves")
      /\ \A f \in store.formats : f.book_id \in bookIDs

\* A store with links of all three kinds and formats, after a re-import of
\* a stored identifier.
C18_Witness ==
  /\ Committed
  /\ BookExists(prevStore, LastBook.GutenbergID)
  /\ store.book_authors # {}
  /\ store.book_subjects # {}
  /\ store.book_bookshelves # {}
  /\ store.formats # {}

EntityTables == {"authors", "subjects", "bookshelves"}

\* C19: shared entities are never deleted.  After any InsertBook, committed
\* or failed, every contributor, subject and bookshelf row stored before
\* the call is still in the store under its id and with its identity; the
\* links that refer to it are still there too.
C19_EntitiesKept ==
  /\ \A r0 \in prevStore.authors :
       \E r \in store.authors : r.id = r0.id /\ AuthorKey(r) = AuthorKey(r0)
  /\ \A t \in {"subjects", "bookshelves"} : prevStore[t] \subseteq store[t]
  /\ \A t \in EntityTables :
       Cardinality(prevStore[t]) <= Cardinality(store[t])
  /\ \A lt \in {"book_authors", "book_subjects", "book_bookshelves"} :
       prevStore[lt] \subseteq store[lt]

\* A stored Record was imported again without the contributor it had, and
\* with another one: the first contributor's row is kept.
C19_Witness ==
  /\ Committed
  /\ BookExists(prevStore, LastBook.GutenbergID)
  /\ Cardinality(store.books) = 1
  /\ \E a \in prevStore.authors :
       /\ \A k \in 1..Len(LastBook.Authors) : ~SameAuthorKey(a, LastBook.Authors[k])
       /\ \E r \in store.authors : r.id = a.id
  /\ Cardinality(store.authors) = 2

\* ======================================================= the parser, claims
\* The call of fn has returned.
Returned(fn) == input # <<>> /\ input[1] = fn /\ result # <<>>

\* ParseRDF has returned a Book for a document with an ebook element.
Parsed == Returned("ParseRDF") /\ result[1].book # <<>>

TheEbook == input[2].Ebook[1]

TheBook == result[1].book[1]

\* C23 as stated: ParseRDF fails only when the root element does not
\* decode; for every document whose root element decodes, with or without
\* an ebook element, it returns a Record and no error.
C23_FailsOnlyOnUndecodableRoot ==
  Returned("ParseRDF") =>
    /\ result[1].err # "" => input[2].root # "RDF"
    /\ input[2].root = "RDF" => result[1].book # <<>> /\ result[1].err = ""

\* C23, amended: ParseRDF fails exactly when the root element does not
\* decode or the document has no ebook element; for every other document
\* it returns a Record, whatever fields the ebook element lacks, and no
\* error; and it never returns both or neither.
C23_FailsWithoutRootOrEbook ==
  Returned("ParseRDF") =>
    /\ result[1].err # "" <=> (input[2].root # "RDF" \/ input[2].Ebook = <<>>)
    /\ result[1].err = "" <=> result[1].book # <<>>

\* ParseRDF returned a Record with empty fields for an ebook element with
\* neither attributes nor children.
C23_Witness ==
  /\ Returned("ParseRDF")
  /\ input[2] = RDF(EmptyEbook)
  /\ result[1].err = ""
  /\ result[1].book # <<>>
  /\ TheBook.GutenbergID = <<>>
  /\ TheBook.Authors = <<>>

\* The path segments of uri, as the positions of their first and last
\* characters: the longest runs without a slash.
SegmentsOf(uri) ==
  {seg \in (1..Len(uri)) \X (1..Len(uri)) :
     /\ seg[1] <= seg[2]
     /\ \A i \in seg[1]..seg[2] : uri[i] # "/"
     /\ seg[1] = 1 \/ uri[seg[1] - 1] = "/"
     /\ seg[2] = Len(uri) \/ uri[seg[2] + 1] = "/"}

DigitSegments(uri) ==
  {seg \in SegmentsOf(uri) : \A i \in seg[1]..seg[2] : IsDigit(uri[i])}

LastDigitSegment(uri) ==
  IF DigitSegments(uri) = {} THEN <<>>
  ELSE LET seg == CHOOSE x \in DigitSegments(uri) :
                     \A y \in DigitSegments(uri) : y[1] <= x[1]
       IN  SubSeq(uri, seg[1], seg[2])

\* C24: extractGutenbergID returns the last path segment of the URI that
\* consists solely of digits, and the empty identifier when there is none;
\* ParseRDF returns the Record in either case, with that identifier.
C24_LastDigitSegment ==
  /\ Returned("extractGutenbergID") =>
       result[1] = LastDigitSegment(input[2])
  /\ Returned("ParseRDF") /\ input[2].root = "RDF" /\ input[2].Ebook # <<>> =>
       /\ result[1].book # <<>>
       /\ TheBook.GutenbergID = LastDigitSegment(TheEbook.About)

\* Where a run of exactly four digits starts in a date.
FourDigitRuns(date) ==
  {i \in 1..(Len(date) - 3) :
     /\ \A k \in 0..3 : IsDigit(date[i + k])
     /\ i = 1 \/ ~IsDigit(date[i - 1])
     /\ i + 3 = Len(date) \/ ~IsDigit(date[i + 4])}

\* C25: extractYear returns the value of the first run of exactly four
\* consecutive digits of the date, a longer run not being one, and absent
\* when the date has none.
C25_FirstFourDigitRun ==
  Returned("extractYear") =>
    LET date == input[2]
        runs == FourDigitRuns(date)
    IN  IF runs = {} THEN result[1] = NULL
        ELSE LET i == CHOOSE x \in runs : \A y \in runs : x <= y
             IN  result[1] = <<1000 * DigitValue(date[i])
                               + 100 * DigitValue(date[i + 1])
                               + 10 * DigitValue(date[i + 2])
                               + DigitValue(date[i + 3])>>

\* The words of a name, as the positions of their first and last
\* characters: the longest runs without white space.
WordsOf(name) ==
  {word \in (1..Len(name)) \X (1..Len(name)) :
     /\ word[1] <= word[2]
     /\ \A i \in word[1]..word[2] : ~IsSpace(name[i])
     /\ word[1] = 1 \/ IsSpace(name[word[1] - 1])
     /\ word[2] = Len(name) \/ IsSpace(name[word[2] + 1])}

\* C26: splitName of a name with a comma gives the text before the first
\* comma as the last name and the text after it as the first name, both
\* without the white space around them; of a name without comma it gives
\* two empty names when the name has no word, the word as the last name and
\* an empty first name when it has one, and the first word as the first
\* name and the final word as the last name when it has more.
C26_NameSplit ==
  Returned("splitName") =>
    LET name == input[2]
        commas == {i \in 1..Len(name) : name[i] = ","}
        words == WordsOf(name)
        first == CHOOSE x \in words : \A y \in words : x[1] <= y[1]
        final == CHOOSE x \in words : \A y \in words : x[1] >= y[1]
    IN  IF commas # {}
        THEN LET c == CHOOSE x \in commas : \A y \in commas : x <= y
             IN  /\ result[1].lastName = TrimSpace(SubSeq(name, 1, c - 1))
                 /\ result[1].firstName =
                      TrimSpace(SubSeq(name, c + 1, Len(name)))
        ELSE IF words = {}
        THEN result[1].firstName = <<>> /\ result[1].lastName = <<>>
        ELSE IF Cardinality(words) = 1
        THEN /\ result[1].firstName = <<>>
             /\ result[1].lastName = SubSeq(name, first[1], first[2])
        ELSE /\ result[1].firstName = SubSeq(name, first[1], first[2])
             /\ result[1].lastName = SubSeq(name, final[1], final[2])

\* splitName dropped the word in the middle of a name of three.
C26_Witness ==
  /\ Returned("splitName")
  /\ input[2] = <<"a", " ", "a", " ", "b">>
  /\ result[1] = [firstName |-> <<"a">>, lastName |-> <<"b">>]

\* The hint the URL has, taken in the order epub, kindle, html, plain text
\* and whatever the case of its letters.
HintedType(url) ==
  LET Hint(h) == Contains(ToLower(url), h)
      epub == Hint(<<"e", "p", "u", "b">>)
      kindle == Hint(<<"k", "i", "n", "d", "l", "e">>)
      html == Hint(<<"h", "t", "m", "l">>)
      plain == Hint(<<"t", "x", "t">>) \/ Hint(<<"p", "l", "a", "i", "n">>)
  IN  CASE epub -> MediaType("epub")
        [] ~epub /\ kindle -> MediaType("kindle")
        [] ~epub /\ ~kindle /\ html -> MediaType("html")
        [] ~epub /\ ~kindle /\ ~html /\ plain -> MediaType("plain")
        [] OTHER -> <<>>

HasURL(format) == format.File # <<>> /\ format.File[1].About # <<>>

\* C27: the Record keeps exactly the formats whose URL is not empty, in
\* order; the type of each is the declared type without the white space
\* around it when that is not empty, and otherwise the type of the first
\* hint its URL has, empty when it has none.
C27_FormatType ==
  Parsed =>
    LET kept == SelectSeq(TheEbook.Format, HasURL)
    IN  /\ Len(TheBook.Formats) = Len(kept)
        /\ \A k \in 1..Len(kept) :
             LET file == kept[k].File[1]
                 declared == IF file.Format = <<>> THEN <<>>
                             ELSE TrimSpace(file.Format[1].Value)
             IN  /\ TheBook.Formats[k].FileURL = file.About
                 /\ declared # <<>> => TheBook.Formats[k].Type = declared
                 /\ declared = <<>> =>
                      TheBook.Formats[k].Type = HintedType(file.About)

\* A format without declared type whose URL has the html hint before the
\* epub hint got the epub type.
C27_Witness ==
  /\ Parsed
  /\ TheEbook.Format =
       <<File(<<"h", "t", "m", "l", "e", "p", "u", "b">>, <<>>, <<>>)>>
  /\ Len(TheBook.Formats) = 1
  /\ TheBook.Formats[1].Type = MediaType("epub")

\* What a language element offers, in the order tried: the nested value
\* and the text content without the white space around them, the resource
\* attribute as it is.
Offers(lang) ==
  << IF lang.Description = <<>> THEN <<>>
     ELSE TrimSpace(lang.Description[1].Value),
     lang.Resource,
     TrimSpace(lang.Value) >>

RECURSIVE AllOffers(_)
AllOffers(langs) ==
  IF langs = <<>> THEN <<>> ELSE Offers(Head(langs)) \o AllOffers(Tail(langs))

\* C28: the language of the Record is the first value that is not empty
\* among those the language elements offer, each element offering its
\* nested value, then its resource attribute, then its text content; it is
\* empty only when all are empty.
C28_FirstNonEmptyLanguage ==
  Parsed =>
    LET offers == AllOffers(TheEbook.Language)
        set == {i \in 1..Len(offers) : offers[i] # <<>>}
    IN  IF set = {} THEN TheBook.Language = <<>>
        ELSE TheBook.Language =
               offers[CHOOSE x \in set : \A y \in set : x <= y]

\* C29: no Record has two contributors with the same name, birth year and
\* death year, two equal subjects or two equal bookshelves.
C29_Deduplicated ==
  Parsed =>
    /\ \A i, j \in 1..Len(TheBook.Authors) :
         /\ TheBook.Authors[i].Name = TheBook.Authors[j].Name
         /\ TheBook.Authors[i].BirthYear = TheBook.Authors[j].BirthYear
         /\ TheBook.Authors[i].DeathYear = TheBook.Authors[j].DeathYear
         => i = j
    /\ \A i, j \in 1..Len(TheBook.Subjects) :
         TheBook.Subjects[i] = TheBook.Subjects[j] => i = j
    /\ \A i, j \in 1..Len(TheBook.Bookshelves) :
         TheBook.Bookshelves[i] = TheBook.Bookshelves[j] => i = j

\* ====================================================== the archive, claims
\* The files a complete extraction of the archive puts in the directory.
CompleteSet(zip) ==
  IF zip.tar = <<>> THEN {}
  ELSE {Sanitize(zip.tar[1][k]) :
          k \in {i \in 1..Len(zip.tar[1]) : HasSuffix(zip.tar[1][i], ".rdf")}}

\* C30: every call of ExtractRDFFiles that returns a list returns the files
\* of a complete extraction of the archive, also after a call that failed
\* or was interrupted with part of the files written, and does not read
\* the archive when it found prior output.
C30_Idempotent ==
  listing # <<>> /\ listing[1].err = "" =>
    /\ {listing[1].rdfFiles[k] : k \in 1..Len(listing[1].rdfFiles)}
         = CompleteSet(zipFile)
    /\ listing[1].found => ~listing[1].extracted

\* ======================================================= the engine, claims
Docs == 1..Len(files)

Outcomes ==
  {"Skipped", "FailedParse", "FailedNoIdentifier", "FailedPersist", "Succeeded"}

With(what) == {i \in Docs : outcome[i] = <<what>>}

\* The files that parse into a Book with a non-empty identifier.
Usable == {i \in Docs : ParseRDFFile(files[i]).err = ""
                          /\ BookOf(i).GutenbergID # ""}

Done == returned = "nil"

\* C1: when Import returns, every document has exactly one terminal outcome,
\* Processed = TotalFiles = the length of the list, and each counter is the
\* number of documents with that outcome.
C1_ExactlyOneOutcome ==
  Done =>
    /\ \A i \in Docs : Len(outcome[i]) = 1 /\ outcome[i][1] \in Outcomes
    /\ stats.TotalFiles = Len(files)
    /\ stats.Processed = stats.TotalFiles
    /\ stats.Skipped = Cardinality(With("Skipped"))
    /\ stats.Successful = Cardinality(With("Succeeded"))
    /\ stats.Failed = Cardinality(With("FailedParse")
                          \cup With("FailedNoIdentifier")
                          \cup With("FailedPersist"))

\* Two workers with batches of two returned from a list with a skipped, a
\* failed and an imported document.
C1_Witness ==
  /\ Done
  /\ workers > 1
  /\ batchSize > 1
  /\ Len(files) > 2
  /\ stats.Skipped > 0
  /\ stats.Failed > 0
  /\ stats.Successful > 0

\* C4: in every committed store no two contributor rows have the same
\* (name, birth year, death year), an absent year being equal to an absent
\* year; every contributor named by an imported Record is exactly one row,
\* linked to that Record's row.
C4_ContributorIdentity ==
  /\ \A a, b \in store.authors : AuthorKey(a) = AuthorKey(b) => a = b
  /\ \A i \in With("Succeeded") : \A k \in 1..Len(BookOf(i).Authors) :
       LET au   == BookOf(i).Authors[k]
           rows == {a \in store.authors :
                      AuthorKey(a) = <<au.Name, au.BirthYear, au.DeathYear>>}
       IN  /\ Cardinality(rows) = 1
           /\ \A a \in rows :
                <<SelectBookID(store, BookOf(i).GutenbergID), a.id>>
                   \in store.book_authors

\* Two imported Records with different identifiers name one contributor
\* without years: one row, two links.
C4_Witness ==
  /\ \E i, j \in With("Succeeded") :
       /\ BookOf(i).GutenbergID # BookOf(j).GutenbergID
       /\ BookOf(i).Authors # <<>>
       /\ BookOf(j).Authors # <<>>
       /\ BookOf(i).Authors[1].BirthYear = NULL
  /\ store0 = EmptyDB
  /\ Cardinality(store.authors) = 1
  /\ Cardinality(store.book_authors) = 2

\* The store after InsertBook of the imported documents, in list order.
RECURSIVE ImportInOrder(_, _)
ImportInOrder(db, k) ==
  IF k = 0 THEN db
  ELSE LET before == ImportInOrder(db, k - 1)
       IN  IF outcome[k] = <<"Succeeded">>
           THEN InsertBook(before, BookOf(k), k, 0).db
           ELSE before

\* No two documents carry the same identifier, and two documents naming the
\* same contributor give each backfilled column the same value or none.
Compatible ==
  \A i, j \in Usable :
     i # j =>
       /\ BookOf(i).GutenbergID # BookOf(j).GutenbergID
       /\ \A k \in 1..Len(BookOf(i).Authors), l \in 1..Len(BookOf(j).Authors) :
            LET a == BookOf(i).Authors[k]
                b == BookOf(j).Authors[l]
            IN  <<a.Name, a.BirthYear, a.DeathYear>>
                  = <<b.Name, b.BirthYear, b.DeathYear>>
                => \A f \in SubFields :
                      \/ Incoming(a, f) = Incoming(b, f)
                      \/ Incoming(a, f) = ""
                      \/ Incoming(b, f) = ""

\* C5, as claimed: when Import returns, the store contents are those of
\* importing the same documents one after the other in list order, whatever
\* the interleaving, the worker count and the batch size were.
C5_OrderIndependent ==
  Done => Contents(store) = Contents(ImportInOrder(store0, Len(files)))

\* C5, amended: the same for a list whose documents carry pairwise distinct
\* identifiers and no two different non-empty values for a column of the
\* same contributor.
C5_OrderIndependentWhenCompatible ==
  (Done /\ Compatible) =>
     Contents(store) = Contents(ImportInOrder(store0, Len(files)))

\* Two documents naming the same contributor were committed against the
\* order of the list.
C5_Witness ==
  /\ Done
  /\ Compatible
  /\ \E i, j \in With("Succeeded") :
       /\ i < j
       /\ BookOf(i).Authors # <<>>
       /\ BookOf(j).Authors # <<>>
       /\ BookOf(i).Authors[1] # BookOf(j).Authors[1]
       /\ SelectBookID(store, BookOf(j).GutenbergID)
            < SelectBookID(store, BookOf(i).GutenbergID)
  /\ store0 = EmptyDB

\* The documents whose identifier was stored before the run.
Preexisting == {i \in Usable : BookOf(i).GutenbergID \in Gids(store0)}

InBatch(i) == \E w \in Workers : \E k \in 1..Len(batch[w]) : batch[w][k] = i

C10_NoAbort ==
  /\ returned \in {"running", "nil"}
  /\ (\A w \in Workers : pc[w] = "done") =>
       /\ sent = Len(files)
       /\ queue = <<>>
       /\ parsed = Docs
       /\ \A i \in Docs : outcome[i] # <<>>
       /\ \A i \in Usable :
            outcome[i] \in {<<"Skipped">>, <<"Succeeded">>, <<"FailedPersist">>}

\* One worker, one batch of two: the first upsert failed, the second was
\* committed, after a document that did not parse.
C10_Witness ==
  /\ Done
  /\ workers = 1
  /\ batchSize = 2
  /\ Len(files) = 3
  /\ outcome[1] = <<"FailedParse">>
  /\ outcome[2] = <<"FailedPersist">>
  /\ outcome[3] = <<"Succeeded">>

\* The positions of document i in the workers' batch buffers.
Buffered(i) ==
  {<<w, k>> : w \in Workers, k \in 1..MaxDocs} \cap
  {p \in Workers \X (1..MaxDocs) : p[2] <= Len(batch[p[1]])
                                    /\ batch[p[1]][p[2]] = i}

\* C21: batching.  batchSize is at least 1 and a worker's buffer never holds
\* more than batchSize records; a worker about to take a document has fewer
\* than batchSize buffered (a full buffer was flushed and emptied first) and
\* a worker that has returned has none; a document is in at most one place
\* of one buffer; the records of a buffer being flushed that are before the
\* flush position have had exactly one InsertBook call and the others none
\* yet; and once every worker has returned every buffered document has had
\* exactly one.
C21_Batching ==
  /\ batchSize >= 1
  /\ \A w \in Workers :
       /\ Len(batch[w]) <= batchSize
       /\ pc[w] \in {"recv", "exists"} => Len(batch[w]) < batchSize
       /\ pc[w] = "done" => batch[w] = <<>>
       /\ Flushing(w) => flushAt[w] \in 1..Len(batch[w])
       /\ \A k \in 1..Len(batch[w]) :
            LET upserts == Len(outcome[batch[w][k]])
            IN  IF Flushing(w) /\ k < flushAt[w] THEN upserts = 1
                                                 ELSE upserts = 0
  /\ \A i \in Docs :
       /\ Cardinality(Buffered(i)) <= 1
       /\ Len(outcome[i]) <= 1
  /\ (\A w \in Workers : pc[w] = "done") =>
       \A i \in Usable \ With("Skipped") :
          outcome[i] \in {<<"Succeeded">>, <<"FailedPersist">>}

\* One worker with batches of two has flushed a full buffer and is flushing
\* the one record left when its input ended.
C21_Witness ==
  \E w \in Workers :
     /\ batchSize = 2
     /\ pc[w] = "lastflush"
     /\ Len(batch[w]) = 1
     /\ outcome[batch[w][1]] = <<>>
     /\ Cardinality(With("Succeeded")) = 2

\* C22: ordering of the resume decision.  A worker is at the existence
\* check for a document only in resume mode and only when ParseRDFFile has
\* been called on the document and returned a Book with a non-empty
\* identifier and no error; only such documents have a failed check; and a
\* document that does not parse or has an empty identifier is never
\* recorded as Skipped.
C22_CheckAfterExtraction ==
  /\ \A w \in Workers :
       pc[w] = "exists" =>
         /\ resume
         /\ cur[w] \in parsed
         /\ cur[w] \in Usable
  /\ chkErr \subseteq Usable \cap parsed
  /\ With("Skipped") \subseteq Usable \cap parsed
  /\ \A i \in Docs \ Usable : \A k \in 1..Len(outcome[i]) :
       outcome[i][k] # "Skipped"
  /\ ~resume => With("Skipped") = {}

\* In a resumed run one document was skipped, another failed to parse and a
\* third had no identifier.
C22_Witness ==
  /\ resume
  /\ With("Skipped") # {}
  /\ With("FailedParse") # {}
  /\ With("FailedNoIdentifier") # {}

\* ========================================== the engine by statement, claims
\* C11: the existence check reflects committed state only.  In every state,
\* under every interleaving, BookExists on the store answers true for an
\* identifier exactly when an upsert transaction for it has committed (in
\* this run or before it): never for a record that only an open transaction
\* has written, never for one that was rolled back; and a document recorded
\* as Skipped carries a committed identifier.
C11_ExistsReflectsCommitted ==
  /\ \A g \in BookIds \cup {""} : BookExists(store, g) <=> g \in committed
  /\ \A i \in With("Skipped") : BookOf(i).GutenbergID \in committed

\* A worker is at the existence check for an identifier that another
\* worker's open transaction has already written and not yet committed.
C11_Witness ==
  \E v, w \in Workers :
     /\ v # w
     /\ pc[v] = "exists"
     /\ tx[w] # <<>>
     /\ BookExists(OpenTx(w).t.db, BookOf(cur[v]).GutenbergID)
     /\ ~BookExists(store, BookOf(cur[v]).GutenbergID)

\* C12: store writes are serialized.  In every state at most one worker has
\* an open upsert transaction, and that worker holds the one connection, so
\* no statement of one InsertBook runs between two statements of another.
C12_WritesSerialized ==
  /\ Cardinality({w \in Workers : tx[w] # <<>>}) <= 1
  /\ \A w \in Workers : tx[w] # <<>> => connOwner = w

\* One worker is in the middle of its transaction while another has a batch
\* to flush and waits for the connection.
C12_Witness ==
  \E v, w \in Workers :
     /\ v # w
     /\ tx[w] # <<>>
     /\ OpenTx(w).at > 2
     /\ Flushing(v)
     /\ tx[v] = <<>>

\* C15: external identifiers are unique in the store.  In every state of a
\* run, under every interleaving, no two record rows carry the same
\* identifier; a row stored before the run is still the row of its
\* identifier; and each imported document's identifier has exactly one row.
C15_IdentifierUnique ==
  /\ \A a, b \in store.books : a.gutenberg_id = b.gutenberg_id => a = b
  /\ \A r0 \in store0.books :
       \E r \in store.books : r.id = r0.id /\ r.gutenberg_id = r0.gutenberg_id
  /\ \A i \in With("Succeeded") :
       Cardinality({r \in store.books :
                      r.gutenberg_id = BookOf(i).GutenbergID}) = 1

\* Two documents with the identifier of a record stored before the run were
\* both imported: one row, under the old id, with a new title.
C15_Witness ==
  /\ Done
  /\ \E i, j \in With("Succeeded") :
       /\ i # j
       /\ BookOf(i).GutenbergID = BookOf(j).GutenbergID
       /\ \E r0 \in store0.books : \E r \in store.books :
            /\ r0.gutenberg_id = BookOf(i).GutenbergID
            /\ r.id = r0.id
            /\ r.title # r0.title
  /\ Cardinality(store.books) = 1

\* The documents that parse into a Book without an identifier.
Unidentified == {i \in Docs : ParseRDFFile(files[i]).err = ""
                                /\ BookOf(i).GutenbergID = ""}

\* C20: a record with an empty identifier is never persisted by the engine.
\* A document that parses into a Book with an empty identifier is recorded
\* as FailedNoIdentifier and as nothing else, never joins a batch and is
\* never handed to InsertBook; neither the store nor an open transaction
\* ever holds a record row with an empty identifier.
C20_NoEmptyIdentifier ==
  /\ \A i \in Unidentified :
       /\ outcome[i] \in {<<>>, <<"FailedNoIdentifier">>}
       /\ ~InBatch(i)
       /\ (i \in parsed /\ \A w \in Workers : cur[w] # i \/ pc[w] # "exists")
            => outcome[i] = <<"FailedNoIdentifier">>
  /\ \A r \in store.books : r.gutenberg_id # ""
  /\ \A w \in Workers :
       tx[w] # <<>> => \A r \in OpenTx(w).t.db.books : r.gutenberg_id # ""
  /\ "" \notin committed

\* A resumed run returned with a document without identifier recorded as a
\* failure and another document imported.
C20_Witness ==
  /\ Done
  /\ resume
  /\ \E i \in Unidentified : outcome[i] = <<"FailedNoIdentifier">>
  /\ With("Succeeded") # {}
  /\ stats.Failed = 1

\* ================================================== the statistics, claims
InsideCall == {w \in Workers : inCall[w] # <<>>}

RECURSIVE MadeUpTo(_, _)
MadeUpTo(n, kind) == IF n = 0 THEN 0 ELSE made[n][kind] + MadeUpTo(n - 1, kind)

\* C13: statistics are updated under mutual exclusion and read after the
\* barrier.  At most one worker is inside a Record* call; whenever no call
\* is in progress each counter is the number of calls made for it and
\* Processed is their sum; and what printSummary read was read when every
\* worker had terminated, and is the final statistics.
C13_StatsExclusive ==
  /\ Cardinality(InsideCall) <= 1
  /\ InsideCall = {} =>
       /\ stats.Successful = MadeUpTo(workers, "Succeeded")
       /\ stats.Failed = MadeUpTo(workers, "Failed")
       /\ stats.Skipped = MadeUpTo(workers, "Skipped")
       /\ stats.Processed = CallsUpTo(workers)
       /\ Len(stats.Errors) = stats.Failed
  /\ summary # <<>> =>
       /\ \A w \in Workers : pc[w] = "done"
       /\ summary[1] = stats
       /\ summary[1].Processed = CallsUpTo(workers)

\* Two workers each made calls, of all three kinds between them, and the
\* summary was read.
C13_Witness ==
  /\ summary # <<>>
  /\ workers = 2
  /\ \A w \in Workers : Calls(w) > 0
  /\ summary[1].Successful > 0
  /\ summary[1].Failed > 0
  /\ summary[1].Skipped > 0

\* C14: the error sample is a capped buffer of the most recent messages.
\* After any sequence of RecordFailure calls, n of them with a non-nil
\* error, the buffer holds min(n, 100) entries: the last min(n, 100) non-nil
\* messages in arrival order.
C14_ErrorSample ==
  LET n    == Len(recorded)
      kept == IF n < 100 THEN n ELSE 100
  IN  /\ Len(stats.Errors) <= 100
      /\ Len(stats.Errors) = kept
      /\ \A k \in 1..kept : stats.Errors[k] = recorded[n - kept + k]

\* More than 100 messages were recorded, a nil error among the calls: the
\* oldest message is gone from the buffer.
C14_Witness ==
  /\ Len(recorded) > 100
  /\ stats.Failed > Len(recorded)
  /\ Len(stats.Errors) = 100
  /\ stats.Errors[1] = recorded[Len(recorded) - 99]
  /\ stats.Errors[1] # recorded[1]

\* ------------------------------------------- claims about the run as a whole

\* C33: in every state of a run, before the end as well as at the end,
\* Processed = Successful + Failed + Skipped, Processed is at most
\* TotalFiles, and TotalFiles is the length of the document list the run
\* was started with.
C33_CountersConsistent ==
  /\ stats.Processed = stats.Successful + stats.Failed + stats.Skipped
  /\ stats.Processed <= stats.TotalFiles
  /\ stats.TotalFiles = Len(files)

C33_Witness ==
  /\ returned = "running"
  /\ stats.TotalFiles = 2
  /\ stats.Processed = 1
  /\ stats.Skipped = 1
  /\ \E w \in Workers : tx[w] # <<>>

\* C38: a document whose existence check returned an error is never
\* recorded Skipped and never recorded as a failure for that error: it is
\* in its worker's batch until InsertBook decides its outcome, Succeeded or
\* a persist failure, and that is the one outcome it gets.
C38_FailedCheckContinues ==
  \A i \in chkErr :
     /\ outcome[i] \in {<<>>, <<"Succeeded">>, <<"FailedPersist">>}
     /\ outcome[i] = <<>> => InBatch(i)
     /\ Done => outcome[i] # <<>>

\* Two checks failed in one resumed run, one for a stored identifier; one
\* document was then imported and the other failed in InsertBook.
C38_Witness ==
  /\ Done
  /\ resume
  /\ \E i, j \in chkErr :
       /\ i \in Preexisting
       /\ outcome[i] = <<"Succeeded">>
       /\ outcome[j] = <<"FailedPersist">>

\* C35: every document recorded Succeeded is persisted.  At the end of a
\* run the number of Succeeded outcomes is the number of InsertBook calls
\* of the run that committed, and BookExists is true of the identifier of
\* every Succeeded document.
C35_SucceededIsPersisted ==
  Done =>
    /\ Cardinality(With("Succeeded")) = commits
    /\ stats.Successful = commits
    /\ \A i \in With("Succeeded") :
         BookExists(store, BookOf(i).GutenbergID)

\* A run that imported two identifiers the store did not hold before.
C35_Witness ==
  /\ Done
  /\ commits = 2
  /\ \E i, j \in With("Succeeded") :
       /\ BookOf(i).GutenbergID # BookOf(j).GutenbergID
       /\ ~BookExists(store0, BookOf(i).GutenbergID)
       /\ ~BookExists(store0, BookOf(j).GutenbergID)

\* ------------------------------------------------ claims about associations

LinksOf(db, linkTable, gutenbergID) ==
  {l \in db[linkTable] :
     \E r \in db.books : r.gutenberg_id = gutenbergID /\ r.id = l[1]}

ValuesOf(list) == {list[k] : k \in 1..Len(list)}

\* C36: associations are merged, never replaced.  After a committed
\* InsertBook(R) every contributor, subject and bookshelf link R had before
\* is still in place, and the associations of R are those it had before
\* together with those the call carried: the contributors by identity, the
\* subjects and bookshelves by value.
C36_AssociationsMerged ==
  Committed =>
    LET g == LastBook.GutenbergID
    IN  /\ \A lt \in {"book_authors", "book_subjects", "book_bookshelves"} :
             LinksOf(prevStore, lt, g) \subseteq LinksOf(store, lt, g)
        /\ LinkedValues(store, "subjects", "book_subjects", g)
             = LinkedValues(prevStore, "subjects", "book_subjects", g)
                 \cup ValuesOf(LastBook.Subjects)
        /\ LinkedValues(store, "bookshelves", "book_bookshelves", g)
             = LinkedValues(prevStore, "bookshelves", "book_bookshelves", g)
                 \cup ValuesOf(LastBook.Bookshelves)
        /\ LinkedAuthors(prevStore, g) \subseteq LinkedAuthors(store, g)
        /\ \A k \in 1..Len(LastBook.Authors) :
             \E l \in LinksOf(store, "book_authors", g) :
                \E a \in store.authors :
                   a.id = l[2] /\ SameAuthorKey(a, LastBook.Authors[k])
        /\ \A l \in LinksOf(store, "book_authors", g)
                      \ LinksOf(prevStore, "book_authors", g) :
             \E a \in store.authors :
                /\ a.id = l[2]
                /\ \E k \in 1..Len(LastBook.Authors) :
                     SameAuthorKey(a, LastBook.Authors[k])

\* A stored Record was imported again with other bookshelves and without
\* the subject it had: it has the bookshelves of both imports, and the
\* subject.
C36_Witness ==
  /\ Committed
  /\ LET g == LastBook.GutenbergID
     IN  /\ LinkedValues(prevStore, "bookshelves", "book_bookshelves", g)
              = {"b"}
         /\ LinkedValues(prevStore, "subjects", "book_subjects", g) = {"s"}
         /\ LastBook.Subjects = <<>>
         /\ LastBook.Bookshelves = <<"b", "c">>
         /\ LinkedValues(store, "bookshelves", "book_bookshelves", g)
              = {"b", "c"}
         /\ LinkedValues(store, "subjects", "book_subjects", g) = {"s"}

\* C37: InsertBook(R) leaves every other Record alone.  After any call,
\* committed or failed, every Record S stored before it under another
\* identifier has the same row, the same format rows and the same
\* contributor, subject and bookshelf links as before, and reads the same.
C37_OthersUntouched ==
  lastBook # <<>> =>
    \A s \in prevStore.books :
       s.gutenberg_id # LastBook.GutenbergID =>
         /\ s \in store.books
         /\ {f \in store.formats : f.book_id = s.id}
              = {f \in prevStore.formats : f.book_id = s.id}
         /\ \A lt \in {"book_authors", "book_subjects", "book_bookshelves"} :
              LinksOf(store, lt, s.gutenberg_id)
                = LinksOf(prevStore, lt, s.gutenberg_id)
         /\ RecordView(store, s.gutenberg_id)
              = RecordView(prevStore, s.gutenberg_id)

\* A Record with formats was imported into a store holding another Record
\* with formats and with the same subject.
C37_Witness ==
  /\ Committed
  /\ Len(LastBook.Formats) > 0
  /\ \E s \in prevStore.books :
       /\ s.gutenberg_id # LastBook.GutenbergID
       /\ \E f \in store.formats : f.book_id = s.id
       /\ LinksOf(store, "book_subjects", s.gutenberg_id) # {}
       /\ LinkedValues(store, "subjects", "book_subjects", s.gutenberg_id)
            = ValuesOf(LastBook.Subjects)

\* ------------------------------------- claims about a repeated identifier

\* The pairs of documents that carry one identifier the store did not hold
\* when the run started.
NewTwins ==
  {p \in Usable \X Usable :
     /\ p[1] # p[2]
     /\ BookOf(p[1]).GutenbergID = BookOf(p[2]).GutenbergID
     /\ BookOf(p[1]).GutenbergID \notin Gids(store0)}

NoStoreError == chkErr = {} /\ With("FailedPersist") = {}

\* C34, as stated: at the end of a resumed run, of two documents that carry
\* the same identifier, new to the store, one is Succeeded and the other
\* Skipped.
C34_OneSucceededOneSkipped ==
  (Done /\ resume) =>
    \A p \in NewTwins :
       {outcome[p[1]], outcome[p[2]]} = {<<"Succeeded">>, <<"Skipped">>}

\* C34, amended: each of the two ends Succeeded, Skipped or with a persist
\* failure; one is Skipped only when the other is Succeeded, its
\* transaction committed before the check; and with one worker, batch size
\* 1 and no store error one is Succeeded and the other Skipped.  A record
\* in a batch buffer or in an open transaction is not in the store for the
\* skip decision.
C34_SkippedOnlyAfterCommit ==
  (Done /\ resume) =>
    \A p \in NewTwins :
       /\ outcome[p[1]] \in
            {<<"Succeeded">>, <<"Skipped">>, <<"FailedPersist">>}
       /\ outcome[p[1]] = <<"Skipped">> => outcome[p[2]] = <<"Succeeded">>
       /\ (workers = 1 /\ batchSize = 1 /\ NoStoreError) =>
            {outcome[p[1]], outcome[p[2]]} = {<<"Succeeded">>, <<"Skipped">>}

\* One worker buffered both documents before its flush and imported both,
\* with no store error in the run.
C34_Witness ==
  /\ Done
  /\ resume
  /\ workers = 1
  /\ batchSize = 2
  /\ NoStoreError
  /\ \E p \in NewTwins :
       outcome[p[1]] = <<"Succeeded">> /\ outcome[p[2]] = <<"Succeeded">>

\* ------------------------------------------------- claims about termination

Terminated ==
  /\ sent = Len(files)
  /\ closed
  /\ queue = <<>>
  /\ \A w \in Workers : pc[w] = "done" /\ tx[w] = <<>>
  /\ connOwner = 0
  /\ returned = "nil"

\* C32: under fair scheduling every run of Import ends.  The producer has
\* sent every path and closed the queue, every worker has left its loop, no
\* worker is waiting on the queue or on the store connection, and Import
\* has returned; from then on nothing changes.
C32_Terminates == <>[]Terminated

\* A worker waits for the one connection while the other worker's
\* transaction holds it.
C32_Witness ==
  /\ workers = 2
  /\ batchSize = 2
  /\ \E w, v \in Workers :
       /\ w # v
       /\ connOwner = v
       /\ tx[v] # <<>>
       /\ Flushing(w)
       /\ tx[w] = <<>>

\* ------------------------------------------- claims about BatchInsertBooks

BatchComplete ==
  /\ bret = "nil"
  /\ Len(attempted) = Len(books)
  /\ \A k \in 1..Len(attempted) : attempted[k].k = k

\* C31: for every list and every batch size >= 1 the call of
\* BatchInsertBooks ends, returning nil, with InsertBook attempted on every
\* book of the list once and in list order, whichever of the attempts
\* failed.
C31_AttemptsAllInOrder == <>[]BatchComplete

\* Three books in batches of two: the first and the last attempt failed,
\* the second committed.
C31_Witness ==
  /\ bret = "nil"
  /\ Len(books) = 3
  /\ bsize = 2
  /\ Len(attempted) = 3
  /\ attempted[1].err
  /\ ~attempted[2].err
  /\ attempted[3].err
  /\ Cardinality(store.books) = 1

\* --------------------------------------------- claims about the two engines

BothDone == Done /\ pRet = "nil"

\* No two documents that decode carry the same identifier.
DistinctIdentifiers ==
  \A i, j \in Docs :
     (i # j /\ ParseRDFFile(files[i]).err = ""
            /\ ParseRDFFile(files[j]).err = "")
       => BookOf(i).GutenbergID # BookOf(j).GutenbergID

\* The store failed for the same documents in both runs.
SameStoreErrors ==
  /\ pChkErr = chkErr
  /\ {i \in Docs : pOutcome[i] = <<"FailedPersist">>} = With("FailedPersist")

\* C39: on a list with pairwise distinct identifiers, with the same resume
\* setting and the same store errors, Import (every worker count, batch
\* size and interleaving) and ImportWithProgress end with the same
\* Successful, Failed and Skipped counters and the same persisted
\* identifiers.
C39_EnginesAgree ==
  (BothDone /\ DistinctIdentifiers /\ SameStoreErrors) =>
    /\ stats.Successful = pStats.Successful
    /\ stats.Failed = pStats.Failed
    /\ stats.Skipped = pStats.Skipped
    /\ Gids(store) = Gids(pStore)

\* Both engines ran a resumed import of a stored identifier and a document
\* without identifier, with two workers on the concurrent side.
C39_Witness ==
  /\ BothDone
  /\ DistinctIdentifiers
  /\ SameStoreErrors
  /\ resume
  /\ workers = 2
  /\ Len(files) = 2
  /\ stats.Skipped = 1
  /\ stats.Failed = 1
  /\ pOutcome[1] = <<"FailedNoIdentifier">>

====
